---- MODULE Spec2Model ----
(***************************************************************************)
(* A model of the RV64 execution core: the rrs-lib hart executor           *)
(* (HartState, InstructionExecutor::step and its handlers) and the zkVM    *)
(* MemoryMonitor that buffers byte writes until commit.                    *)
(*                                                                         *)
(* A u64 is a tuple of four 16-bit limbs, least significant first, so that *)
(* 64-bit wrap-around, sign extension and little-endian packing are        *)
(* computed at full width.                                                 *)
(***************************************************************************)
EXTENDS Integers, Sequences, FiniteSets, TLC

VARIABLES
    registers,            \* HartState.registers
    pc,                   \* HartState.pc
    last_register_write,  \* HartState.last_register_write (0..31, or -1 for None)
    image,                \* MemoryMonitor.image.memory_space: byte cells of the regions
    pending_writes,       \* MemoryMonitor.pending_writes
    op_result,            \* MemoryMonitor.op_result
    syscalls,             \* MemoryMonitor.syscalls
    initial,              \* MemoryMonitor.initial
    memKind,              \* which Memory the executor runs on: "monitor" or "space"
    status,               \* "running", "error" (step returned Err) or "panicked"
    steps,                \* executor steps, or session calls, made so far
    nstores,              \* store calls made so far on the monitor
    ncommits,             \* commits made so far on the monitor
    last,                 \* observation of the last executor step
    prevWrites,           \* the writes issued by the step before the last one
    ret,                  \* observation of the last monitor call
    snap,                 \* the image as the previous commit left it
    calls,                \* the store calls made since the last commit
    applied,              \* the store calls the last commit consumed
    before,               \* the last session call and the monitor as it was before it
    fin,                  \* the input of the function under test
    fout                  \* the output of the function under test

vars == <<registers, pc, last_register_write, image, pending_writes, op_result,
          syscalls, initial, memKind, status, steps, nstores, ncommits, last,
          prevWrites, ret, snap, calls, applied, before, fin, fout>>

hartVars == <<registers, pc, last_register_write>>

-----------------------------------------------------------------------------
(* Bounds of the model *)

MaxStores == 2
MaxCommits == 1
MaxSteps == 3
ProgLen == 2
MaxSessStores == 2
MaxSessCalls == 4

-----------------------------------------------------------------------------
(* Platform constants (risc0_zkvm_platform), scaled to a small memory *)

MEM_SIZE == 32
SYSTEM_START == 8
STACK_INITIAL_ADDRESS == 4640

-----------------------------------------------------------------------------
(* 64-bit words *)

Limb == 256 * 256

Zero64 == <<0, 0, 0, 0>>

Max64 == <<Limb - 1, Limb - 1, Limb - 1, Limb - 1>>

\* a small natural number as a u64
U64(n) == <<n % Limb, (n \div Limb) % Limb, 0, 0>>

\* `i as u64` for a signed 32-bit i (sign extension)
Imm64(i) ==
    IF i >= 0 THEN U64(i)
    ELSE <<i % Limb, (i \div Limb) % Limb, Limb - 1, Limb - 1>>

\* u64::wrapping_add
Add64(a, b) ==
    LET s1 == a[1] + b[1]
        s2 == a[2] + b[2] + (s1 \div Limb)
        s3 == a[3] + b[3] + (s2 \div Limb)
        s4 == a[4] + b[4] + (s3 \div Limb)
    IN  <<s1 % Limb, s2 % Limb, s3 % Limb, s4 % Limb>>

\* a < b as unsigned 64-bit numbers
Less64(a, b) ==
    \/ a[4] < b[4]
    \/ a[4] = b[4] /\ a[3] < b[3]
    \/ a[4] = b[4] /\ a[3] = b[3] /\ a[2] < b[2]
    \/ a[4] = b[4] /\ a[3] = b[3] /\ a[2] = b[2] /\ a[1] < b[1]

\* (a as i64) < (b as i64)
SLess64(a, b) ==
    LET na == a[4] >= Limb \div 2
        nb == b[4] >= Limb \div 2
    IN  IF na # nb THEN na ELSE Less64(a, b)

\* x as i8 / i16 / i32 as i64 as u64: sign extension of the low `bits` bits
SignExtend(v, bits) ==
    CASE bits = 8 ->
           LET b == v[1] % 256
           IN  IF b >= 128 THEN <<b + (Limb - 256), Limb - 1, Limb - 1, Limb - 1>>
               ELSE <<b, 0, 0, 0>>
      [] bits = 16 ->
           IF v[1] >= Limb \div 2 THEN <<v[1], Limb - 1, Limb - 1, Limb - 1>>
           ELSE <<v[1], 0, 0, 0>>
      [] bits = 32 ->
           IF v[2] >= Limb \div 2 THEN <<v[1], v[2], Limb - 1, Limb - 1>>
           ELSE <<v[1], v[2], 0, 0>>
      [] OTHER -> v

\* the low `bits` bits, zero extended (x as u8 / u16 / u32 as u64)
Truncate(v, bits) ==
    CASE bits = 8 -> <<v[1] % 256, 0, 0, 0>>
      [] bits = 16 -> <<v[1], 0, 0, 0>>
      [] bits = 32 -> <<v[1], v[2], 0, 0>>
      [] OTHER -> v

\* the bytes most significant first
ToBeBytes(v, n) ==
    [k \in 1..n |->
        IF (n - k) % 2 = 0 THEN v[(n - k + 2) \div 2] % 256
        ELSE v[(n - k + 1) \div 2] \div 256]

\* u64::to_le_bytes, cut to the first n bytes (u8/u16/u32::to_le_bytes of the cast)
ToLeBytes(v, n) ==
    [k \in 1..n |->
        IF k % 2 = 1 THEN v[(k + 1) \div 2] % 256 ELSE v[k \div 2] \div 256]

\* uN::from_le_bytes, widened to u64
FromLeBytes(bytes) ==
    [j \in 1..4 |->
        (IF 2 * j - 1 <= Len(bytes) THEN bytes[2 * j - 1] ELSE 0)
        + 256 * (IF 2 * j <= Len(bytes) THEN bytes[2 * j] ELSE 0)]

\* the number of bytes of a MemAccessSize
SizeBytes(size) ==
    CASE size = "Byte" -> 1
      [] size = "HalfWord" -> 2
      [] size = "Word" -> 4
      [] size = "DoubleWord" -> 8

-----------------------------------------------------------------------------
(* MemorySpace: the primary region [0, MEM_SIZE) and the playground region   *)
(* [0xd000000000, 0xd000000000 + MEM_SIZE), as byte cells 0..2*MEM_SIZE-1    *)

Cells == 0 .. (2 * MEM_SIZE - 1)

NoCell == 0 - 1

\* limb 3 of the playground base 0xd000000000 (its other limbs are zero)
PlaygroundLimb == 13 * 16

PlaygroundBase == <<0, 0, PlaygroundLimb, 0>>

\* the cell an address falls in, NoCell when it lies in no region
CellOf(a) ==
    IF a[4] = 0 /\ a[2] = 0 /\ a[1] < MEM_SIZE
    THEN IF a[3] = 0 THEN a[1]
         ELSE IF a[3] = PlaygroundLimb THEN MEM_SIZE + a[1] ELSE NoCell
    ELSE NoCell

RegionOf(cell) == IF cell = NoCell THEN NoCell ELSE cell \div MEM_SIZE

\* the cells of the n bytes at addr, when all of them lie in one region
AccessCells(addr, n) == [i \in 1..n |-> CellOf(Add64(addr, U64(i - 1)))]

AccessInRegion(addr, n) ==
    LET In(cs) == \A i \in 1..n : cs[i] # NoCell /\ RegionOf(cs[i]) = RegionOf(cs[1])
    IN  In(AccessCells(addr, n))

\* MemorySpace::read_mem: None when addr exists in no region
SpaceRead(img, addr, size) ==
    LET At(n, cs) ==
            IF AccessInRegion(addr, n)
            THEN [some |-> TRUE, val |-> FromLeBytes([i \in 1..n |-> img[cs[i]]])]
            ELSE [some |-> FALSE, val |-> Zero64]
    IN  At(SizeBytes(size), AccessCells(addr, SizeBytes(size)))

\* the bytes written one after the other into the cells
RECURSIVE PutBytes(_, _, _, _)
PutBytes(img, cs, bytes, i) ==
    IF i > Len(bytes) THEN img
    ELSE PutBytes([img EXCEPT ![cs[i]] = bytes[i]], cs, bytes, i + 1)

\* MemorySpace::write_mem: false (and no change) when addr exists in no region
SpaceWrite(img, addr, size, data) ==
    LET At(n) ==
            IF AccessInRegion(addr, n)
            THEN [ok |-> TRUE,
                  image |-> PutBytes(img, AccessCells(addr, n), ToLeBytes(data, n), 1)]
            ELSE [ok |-> FALSE, image |-> img]
    IN  At(SizeBytes(size))

\* MemoryImage::new: both regions zeroed, then the program words written
\* (program: a sequence of 32-bit words loaded at address 0, 4, 8, ...)
RECURSIVE LoadWords(_, _, _)
LoadWords(img, program, k) ==
    IF k > Len(program) THEN img
    ELSE LoadWords(SpaceWrite(img, U64(4 * (k - 1)), "Word", program[k]).image,
                   program, k + 1)

MemoryImageNew(program) == LoadWords([c \in Cells |-> 0], program, 1)

\* MemoryImage::new for any program.image, given as its (addr, word) entries
\* in key order: each word is written with write_mem of the primary region
\* (the VecMemory at base 0, before the playground exists) and the returned
\* bool is not looked at
RECURSIVE LoadEntries(_, _, _)
LoadEntries(img, entries, k) ==
    LET Write(addr, word) ==
            IF AccessInRegion(addr, 4) /\ RegionOf(CellOf(addr)) = 0
            THEN SpaceWrite(img, addr, "Word", word).image
            ELSE img
    IN  IF k > Len(entries) THEN img
        ELSE LoadEntries(Write(entries[k][1], entries[k][2]), entries, k + 1)

MemoryImageFrom(entries) == LoadEntries([c \in Cells |-> 0], entries, 1)

-----------------------------------------------------------------------------
(* MemoryMonitor *)

MemStore(addr, data) == [addr |-> addr, data |-> data]

\* derived Ord of MemStore: by addr, then by data
StoreLess(x, y) ==
    \/ Less64(x.addr, y.addr)
    \/ x.addr = y.addr /\ x.data < y.data

\* the first element of the iteration order, as if commit kept the first
\* write it meets at an address
LastStore_First(S) == CHOOSE x \in S : \A y \in S \ {x} : StoreLess(x, y)

\* the last element of the BTreeSet's iteration order
LastStore(S) == CHOOSE x \in S : \A y \in S \ {x} : StoreLess(y, x)

\* the state of a monitor after a store call: st is [image, pending, panic]
Mon(img, pw, panicked) == [image |-> img, pending |-> pw, panic |-> panicked]

\* MemoryMonitor::load_u8: unwraps the region read
LoadU8(img, addr) ==
    LET Unwrap(r) == [panic |-> ~r.some, val |-> r.val]
    IN  Unwrap(SpaceRead(img, addr, "Byte"))

\* MemoryMonitor::load_array
LoadArray(img, addr, n) ==
    LET Collect(bs) == [panic |-> \E i \in 1..n : bs[i].panic,
                        bytes |-> [i \in 1..n |-> bs[i].val[1]]]
    IN  Collect([i \in 1..n |-> LoadU8(img, Add64(addr, U64(i - 1)))])

\* MemoryMonitor::load_u16 / load_u32 / load_u64: assert alignment, then
\* from_le_bytes of load_array
LoadUN(img, addr, n) ==
    LET Pack(r) == [panic |-> r.panic,
                    val |-> IF r.panic THEN Zero64 ELSE FromLeBytes(r.bytes)]
    IN  IF addr[1] % n # 0 THEN [panic |-> TRUE, val |-> Zero64]
        ELSE Pack(LoadArray(img, addr, n))

\* a store that writes through to the image at once
StoreU8Through(img, pw, addr, data) ==
    [image |-> SpaceWrite(img, addr, "Byte", <<data, 0, 0, 0>>).image,
     pending |-> pw \cup {[addr |-> addr, data |-> data]},
     panic |-> FALSE]

\* MemoryMonitor::store_u8
StoreU8(img, pw, addr, data) == Mon(img, pw \cup {MemStore(addr, data)}, FALSE)

\* MemoryMonitor::store_region
RECURSIVE StoreRegion(_, _, _, _)
StoreRegion(img, pw, addr, slice) ==
    LET Rest(st) == StoreRegion(st.image, st.pending, Add64(addr, U64(1)), Tail(slice))
    IN  IF slice = <<>> THEN Mon(img, pw, FALSE)
        ELSE Rest(StoreU8(img, pw, addr, Head(slice)))

\* MemoryMonitor::store_u16 / store_u32 / store_u64: assert alignment, then
\* store_region of to_le_bytes
StoreUN(img, pw, addr, data, n) ==
    IF addr[1] % n # 0 THEN Mon(img, pw, TRUE)
    ELSE StoreRegion(img, pw, addr, ToLeBytes(data, n))

\* get_register_addr
get_register_addr(idx) == U64(SYSTEM_START + idx * 8)

\* a store_register that stores the data as given, zero to x2 included
StoreRegister_NoReset(img, pw, idx, data) ==
    StoreUN(img, pw, get_register_addr(idx), data, 8)

\* MemoryMonitor::store_register
StoreRegister(img, pw, idx, data) ==
    IF idx = 2 /\ data = Zero64
    THEN StoreUN(img, pw, get_register_addr(idx), U64(STACK_INITIAL_ADDRESS), 8)
    ELSE StoreUN(img, pw, get_register_addr(idx), data, 8)

\* MemoryMonitor::load_register: [panic, val, initial, pending]
LoadRegister(img, pw, init, idx) ==
    LET Bootstrap(st) == [panic |-> st.panic, val |-> U64(STACK_INITIAL_ADDRESS),
                          initial |-> TRUE, pending |-> st.pending]
        Load(r) == [panic |-> r.panic, val |-> r.val, initial |-> init, pending |-> pw]
    IN  IF idx = 2 /\ init = FALSE
        THEN Bootstrap(StoreUN(img, pw, get_register_addr(idx),
                               U64(STACK_INITIAL_ADDRESS), 8))
        ELSE Load(LoadUN(img, get_register_addr(idx), 8))

\* a commit loop that stops at the first write out of bounds
ApplyWrites_StopAtFault(img, pw) ==
    LET Cell(c, W) == IF W = {} THEN img[c] ELSE LastStore(W).data
        Loop(done) == [c \in Cells |-> Cell(c, {w \in done : CellOf(w.addr) = c})]
    IN  Loop({w \in pw : \A f \in pw : CellOf(f.addr) = NoCell => StoreLess(w, f)})

\* the loop of MemoryMonitor::commit: each pending write, in the set's order,
\* is written to the memory space as a byte, and a write out of bounds is only
\* logged; a cell ends up holding the data of the last write in that order
\* that falls on it
ApplyWrites(img, pw) ==
    LET Cell(c, W) == IF W = {} THEN img[c] ELSE LastStore(W).data
    IN  [c \in Cells |-> Cell(c, {w \in pw : CellOf(w.addr) = c})]

\* Memory for MemoryMonitor: read_mem is always Some(load)
MonitorReadMem(img, addr, size) ==
    LET Some(r) == [kind |-> IF r.panic THEN "panic" ELSE "some", val |-> r.val]
    IN  Some(IF size = "Byte" THEN LoadU8(img, addr)
             ELSE LoadUN(img, addr, SizeBytes(size)))

\* Memory for MemoryMonitor: write_mem stores the cast data and returns true
MonitorWriteMem(img, pw, addr, size, data) ==
    IF size = "Byte" THEN StoreU8(img, pw, addr, data[1] % 256)
    ELSE StoreUN(img, pw, addr, data, SizeBytes(size))

\* Option<OpCodeResult>: None, or Some(result) with the result's syscall
\* (0: the result carries no syscall record)
NoOpResult == [some |-> FALSE, syscall |-> 0]

SomeOpResult(syscall) == [some |-> TRUE, syscall |-> syscall]

\* MemoryMonitor::save_op
SaveOp(opr) == SomeOpResult(opr.syscall)

\* a commit that clears the pending writes without applying them
CommitDropping(img, pw, opr, sys) ==
    [image |-> img,
     pending |-> {},
     op_result |-> [some |-> FALSE, syscall |-> 0],
     syscalls |-> sys,
     panic |-> ~opr.some]

\* a commit that takes the op result without unwrapping it
Commit_NoUnwrap(img, pw, opr, sys) ==
    [image |-> ApplyWrites(img, pw),
     pending |-> {},
     op_result |-> [some |-> FALSE, syscall |-> 0],
     syscalls |-> IF opr.some /\ opr.syscall # 0 THEN Append(sys, opr.syscall)
                  ELSE sys,
     panic |-> FALSE]

\* a commit that puts the syscall record at the front of the list
Commit_PushFront(img, pw, opr, sys) ==
    [image |-> ApplyWrites(img, pw),
     pending |-> {},
     op_result |-> [some |-> FALSE, syscall |-> 0],
     syscalls |-> IF opr.some /\ opr.syscall # 0 THEN <<opr.syscall>> \o sys
                  ELSE sys,
     panic |-> ~opr.some]

\* MemoryMonitor::commit: the pending writes are applied and cleared, then the
\* op result is taken and unwrapped (a panic when none was saved)
Commit(img, pw, opr, sys) ==
    [image |-> ApplyWrites(img, pw),
     pending |-> {},
     op_result |-> NoOpResult,
     syscalls |-> IF opr.some /\ opr.syscall # 0 THEN Append(sys, opr.syscall)
                  ELSE sys,
     panic |-> ~opr.some]

\* MemoryMonitor::clear_segment
ClearSegment(pw, sys) == [pending |-> pw, syscalls |-> <<>>]

\* a clear_session that keeps the pending writes
ClearSession_KeepWrites(pw, sys) == [pending |-> pw, syscalls |-> <<>>]

\* MemoryMonitor::clear_session
ClearSession(pw, sys) == [pending |-> {}, syscalls |-> ClearSegment(pw, sys).syscalls]

-----------------------------------------------------------------------------
(* HartState *)

None == 0 - 1

\* HartState::new
HartNew == [registers |-> [i \in 0..31 |-> Zero64], pc |-> Zero64,
            last_register_write |-> None]

\* HartState::read_register
read_register(regs, reg_index) ==
    IF reg_index = 0 THEN Zero64 ELSE regs[reg_index]

\* a write_register without the check of register 0
write_register_NoGuard(regs, lrw, reg_index, data) ==
    [registers |-> [regs EXCEPT ![reg_index] = data],
     last_register_write |-> reg_index]

\* HartState::write_register: [registers, last_register_write]
write_register(regs, lrw, reg_index, data) ==
    IF reg_index = 0 THEN [registers |-> regs, last_register_write |-> lrw]
    ELSE [registers |-> [regs EXCEPT ![reg_index] = data],
          last_register_write |-> reg_index]

-----------------------------------------------------------------------------
(* Decoded instruction fields (instruction_formats).  An instruction word is *)
(* a u64 whose two high limbs are zero: lo = insn[1], hi = insn[2].          *)

\* a two's complement number of `bits` bits as a signed integer
Signed(u, bits) == IF u >= 2 ^ (bits - 1) THEN u - 2 ^ bits ELSE u

opcode(insn) == insn[1] % 128

rd(insn) == (insn[1] \div 128) % 32

funct3(insn) == (insn[1] \div 4096) % 8

rs1(insn) == (insn[1] \div 32768) + 2 * (insn[2] % 16)

rs2(insn) == (insn[2] \div 16) % 32

funct7(insn) == insn[2] \div 512

funct5(insn) == insn[2] \div 2048

\* insn[31:26], the shift discriminator of RV64
funct7_rv64(insn) == insn[2] \div 1024

\* IType.imm
imm_i(insn) == Signed(insn[2] \div 16, 12)

\* SType.imm
imm_s(insn) == Signed(funct7(insn) * 32 + rd(insn), 12)

\* BType.imm
imm_b(insn) ==
    Signed((insn[2] \div 32768) * 4096 + ((insn[1] \div 128) % 2) * 2048
           + ((insn[2] \div 512) % 64) * 32 + ((insn[1] \div 256) % 16) * 2, 13)

\* UType.imm as u64: insn & 0xfffff000, sign extended from 32 bits
imm_u(insn) == SignExtend(<<insn[1] - (insn[1] % 4096), insn[2], 0, 0>>, 32)

\* JType.imm
imm_j(insn) ==
    Signed((insn[2] \div 32768) * 1048576
           + ((insn[2] % 16) * 16 + insn[1] \div 4096) * 4096
           + ((insn[2] \div 16) % 2) * 2048 + ((insn[2] \div 32) % 1024) * 2, 21)

\* the handler process_instruction dispatches the word to, "none" when the
\* word decodes to no supported instruction
OpName(insn) ==
    LET f3 == funct3(insn)
        f7 == funct7(insn)
        f5 == funct5(insn)
    IN  CASE opcode(insn) = 3 ->
               <<"lb", "lh", "lw", "ld", "lbu", "lhu", "lwu", "none">>[f3 + 1]
          [] opcode(insn) = 15 -> "fence"
          [] opcode(insn) = 19 ->
               CASE f3 = 1 -> IF funct7_rv64(insn) = 0 THEN "slli" ELSE "none"
                 [] f3 = 5 -> IF funct7_rv64(insn) = 0 THEN "srli"
                              ELSE IF funct7_rv64(insn) = 16 THEN "srai" ELSE "none"
                 [] OTHER ->
                      <<"addi", "", "slti", "sltui", "xori", "", "ori", "andi">>[f3 + 1]
          [] opcode(insn) = 23 -> "auipc"
          [] opcode(insn) = 27 -> IF f3 = 0 THEN "addiw" ELSE "none"
          [] opcode(insn) = 35 ->
               IF f3 < 4 THEN <<"sb", "sh", "sw", "sd">>[f3 + 1] ELSE "none"
          [] opcode(insn) = 47 ->
               CASE f3 = 2 /\ f5 = 0 -> "amoaddw"
                 [] f3 = 2 /\ f5 = 1 -> "amoswapw"
                 [] f3 = 2 /\ f5 = 2 -> "amolrw"
                 [] f3 = 2 /\ f5 = 3 -> "amoscw"
                 [] f3 = 2 /\ f5 = 8 -> "amoorw"
                 [] f3 = 2 /\ f5 = 12 -> "amoandw"
                 [] f3 = 3 /\ f5 = 0 -> "amoaddd"
                 [] f3 = 3 /\ f5 = 1 -> "amoswapd"
                 [] f3 = 3 /\ f5 = 2 -> "amolrd"
                 [] f3 = 3 /\ f5 = 3 -> "amoscd"
                 [] OTHER -> "none"
          [] opcode(insn) = 51 ->
               CASE f7 = 0 ->
                      <<"add", "sll", "slt", "sltu", "xor", "srl", "or", "and">>[f3 + 1]
                 [] f7 = 32 ->
                      IF f3 = 0 THEN "sub" ELSE IF f3 = 5 THEN "sra" ELSE "none"
                 [] f7 = 1 ->
                      <<"mul", "mulh", "mulhsu", "mulhu",
                        "div", "divu", "rem", "remu">>[f3 + 1]
                 [] OTHER -> "none"
          [] opcode(insn) = 55 -> "lui"
          [] opcode(insn) = 59 ->
               IF f7 = 1 /\ f3 = 0 THEN "mulw"
               ELSE IF f7 = 1 /\ f3 = 7 THEN "remuw" ELSE "none"
          [] opcode(insn) = 99 ->
               <<"beq", "bne", "none", "none", "blt", "bge", "bltu", "bgeu">>[f3 + 1]
          [] opcode(insn) = 103 -> IF f3 = 0 THEN "jalr" ELSE "none"
          [] opcode(insn) = 111 -> "jal"
          [] opcode(insn) = 115 -> IF f3 = 2 THEN "rdtime" ELSE "system"
          [] OTHER -> "none"

-----------------------------------------------------------------------------
(* OpCode::decode (zkvm opcode.rs): the mnemonic of a word, an error for an  *)
(* unknown major opcode, or an abort where the table ends in unreachable!()  *)

\* enum MajorType, in declaration order: FromPrimitive::from_u32(n) is the
\* (n + 1)-th variant, or None when there is no such variant
MajorType ==
    <<"Compute0", "Compute1", "Compute2", "MemIo", "Multiply", "Divide",
      "VerifyAnd", "VerifyDivide", "ECall", "ShaInit", "ShaLoad", "ShaMain",
      "PageFault", "MuxSize">>

\* unreachable!(): the process panics
Unreachable ==
    [kind |-> "abort", val |-> Zero64, name |-> "unreachable", idx |-> 0,
     major |-> "", minor |-> 0, cycles |-> 0]

\* bail!("Illegal opcode: ...")
IllegalOpcode ==
    [kind |-> "err", val |-> Zero64, name |-> "Illegal opcode", idx |-> 0,
     major |-> "", minor |-> 0, cycles |-> 0]

\* OpCode::with_major_minor: the tags as given (idx -1: no flat index)
with_major_minor(mnemonic, major, minor, cycles) ==
    [kind |-> "ok", val |-> Zero64, name |-> mnemonic, idx |-> 0 - 1,
     major |-> major, minor |-> minor, cycles |-> cycles]

\* OpCode::new with the tags taken the other way round
Decoded_Swapped(mnemonic, idx, cycles) ==
    IF (idx % 8) + 1 \in DOMAIN MajorType
    THEN [kind |-> "ok", val |-> Zero64, name |-> mnemonic, idx |-> idx,
          major |-> MajorType[(idx % 8) + 1], minor |-> idx \div 8,
          cycles |-> cycles]
    ELSE [Unreachable EXCEPT !.name = "unwrap on None"]

\* OpCode::new: major = from_u32(idx / 8).unwrap(), minor = idx % 8; the field
\* idx keeps the flat index the row passed
Decoded(mnemonic, idx, cycles) ==
    IF (idx \div 8) + 1 \in DOMAIN MajorType
    THEN [kind |-> "ok", val |-> Zero64, name |-> mnemonic, idx |-> idx,
          major |-> MajorType[(idx \div 8) + 1], minor |-> idx % 8,
          cycles |-> cycles]
    ELSE [Unreachable EXCEPT !.name = "unwrap on None"]

\* a row of a match on one field: <<>> stands for the `_` arm
Row(table, i) ==
    IF table[i] = <<>> THEN Unreachable
    ELSE Decoded(table[i][1], table[i][2], table[i][3])

decode(insn) ==
    LET Match(opc, f3, f7, f5, f7_64, r2) ==
            CASE opc = 3 ->
                   Row(<<<<"LB", 24, 1>>, <<"LH", 25, 1>>, <<"LW", 26, 1>>,
                         <<"LD", 27, 1>>, <<"LBU", 28, 1>>, <<"LHU", 29, 1>>,
                         <<"LWU", 30, 1>>, <<>>>>, f3 + 1)
              [] opc = 19 ->
                   IF f3 = 5
                   THEN CASE f7_64 = 0 -> Decoded("SRLI", 46, 2)
                          [] f7_64 = 16 -> Decoded("SRAI", 47, 2)
                          [] OTHER -> Unreachable
                   ELSE Row(<<<<"ADDI", 7, 1>>, <<"SLLI", 37, 1>>, <<"SLTI", 11, 1>>,
                              <<"SLTIU", 12, 1>>, <<"XORI", 8, 2>>, <<>>,
                              <<"ORI", 9, 2>>, <<"ANDI", 10, 2>>>>, f3 + 1)
              [] opc = 23 -> Decoded("AUIPC", 22, 1)
              [] opc = 35 -> Row(<<<<"SB", 29, 1>>, <<"SH", 30, 1>>, <<"SW", 31, 1>>,
                                   <<"SD", 31, 1>>, <<>>, <<>>,
                                   <<>>, <<>>>>, f3 + 1)
              [] opc = 51 ->
                   CASE f7 = 0 ->
                          Row(<<<<"ADD", 0, 1>>, <<"SLL", 36, 1>>, <<"SLT", 5, 1>>,
                                <<"SLTU", 6, 1>>, <<"XOR", 2, 2>>, <<"SRL", 44, 2>>,
                                <<"OR", 3, 2>>, <<"AND", 4, 2>>>>, f3 + 1)
                     [] f7 = 32 ->
                          Row(<<<<"SUB", 1, 1>>, <<>>, <<>>,
                                <<>>, <<>>, <<"SRA", 45, 2>>,
                                <<>>, <<>>>>, f3 + 1)
                     [] f7 = 1 ->
                          Row(<<<<"MUL", 32, 1>>, <<"MULH", 33, 1>>, <<"MULSU", 34, 1>>,
                                <<"MULU", 35, 1>>, <<"DIV", 40, 2>>, <<"DIVU", 41, 2>>,
                                <<"REM", 42, 2>>, <<"REMU", 43, 2>>>>, f3 + 1)
                     [] OTHER -> Unreachable
              [] opc = 47 ->
                   CASE f3 = 2 /\ f5 = 1 -> Decoded("AMOSWAP.W", 0, 1)
                     [] f3 = 2 /\ f5 = 2 -> Decoded("LR.W", 2, 1)
                     [] f3 = 2 /\ f5 = 3 -> Decoded("SC.W", 3, 1)
                     [] f3 = 2 /\ f5 = 8 -> Decoded("AMOOR.W", 0, 1)
                     [] f3 = 2 /\ f5 = 0 -> Decoded("AMOADD.W", 1, 1)
                     [] f3 = 2 /\ f5 = 12 -> Decoded("AMOAND.W", 0, 1)
                     [] f3 = 3 /\ f5 = 0 -> Decoded("AMOADD.D", 1, 1)
                     [] f3 = 3 /\ f5 = 1 -> Decoded("AMOSWAP.D", 2, 1)
                     [] f3 = 3 /\ f5 = 2 -> Decoded("LR.D", 3, 1)
                     [] f3 = 3 /\ f5 = 3 -> Decoded("SC.D", 4, 1)
                     [] OTHER -> Unreachable
              [] opc = 55 -> Decoded("LUI", 21, 1)
              [] opc = 99 ->
                   Row(<<<<"BEQ", 13, 1>>, <<"BNE", 14, 1>>, <<>>,
                         <<>>, <<"BLT", 15, 1>>, <<"BGE", 16, 1>>,
                         <<"BLTU", 17, 1>>, <<"BGEU", 18, 1>>>>, f3 + 1)
              [] opc = 103 -> IF f3 = 0 THEN Decoded("JALR", 20, 1) ELSE Unreachable
              [] opc = 27 -> IF f3 = 0 THEN Decoded("ADDIW", 0, 1) ELSE Unreachable
              [] opc = 59 ->
                   CASE f3 = 0 /\ f7 = 1 -> Decoded("MULW", 0, 1)
                     [] f3 = 7 /\ f7 = 1 -> Decoded("REMUW", 1, 1)
                     [] OTHER -> Unreachable
              [] opc = 111 -> Decoded("JAL", 19, 1)
              [] opc = 115 ->
                   CASE f3 = 0 /\ r2 = 0 /\ f7 = 0 ->
                          with_major_minor("ECALL", "ECall", 0, 1)
                     [] f3 = 0 /\ r2 = 1 /\ f7 = 0 ->
                          with_major_minor("EBREAK", "ECall", 1, 1)
                     [] f3 = 2 -> Decoded("RDTIME", 0, 1)
                     [] OTHER -> Unreachable
              [] opc = 15 -> Decoded("FENCE", 0, 1)
              [] OTHER -> IllegalOpcode
    IN  Match(opcode(insn), funct3(insn), funct7(insn), funct5(insn),
              funct7_rv64(insn), rs2(insn))

-----------------------------------------------------------------------------
(* InstructionExecutor: hart state h = [registers, pc, last_register_write]  *)
(* and memory [image, pending, memKind] in one record                        *)

Hart(regs, p, lrw, img, pw, kind) ==
    [registers |-> regs, pc |-> p, last_register_write |-> lrw,
     image |-> img, pending |-> pw, memKind |-> kind]

\* InstructionException
NoException == [name |-> "none", a |-> Zero64, insn |-> Zero64]

Exception(name, a, insn) == [name |-> name, a |-> a, insn |-> insn]

\* the results of a handler: Some(Ok(pc_updated)), Some(Err(e)), None, a panic
\* inside the memory, or a handler this model does not cover
Result(kind, e, h, pc_updated) ==
    [kind |-> kind, err |-> e, h |-> h, pc_updated |-> pc_updated]

Ok(h, pc_updated) == Result("ok", NoException, h, pc_updated)

Err(h, e) == Result("err", e, h, FALSE)

Panic(h) == Result("panic", NoException, h, FALSE)

Unmodelled(h) == Result("unmodelled", NoException, h, FALSE)

\* hart_state.write_register on the record
WriteReg(h, reg_index, data) ==
    LET Put(w) == [h EXCEPT !.registers = w.registers,
                            !.last_register_write = w.last_register_write]
    IN  Put(write_register(h.registers, h.last_register_write, reg_index, data))

\* self.mem.read_mem: [kind: "some", "none" or "panic", val]
MemRead(h, addr, size) ==
    LET Option(r) == [kind |-> IF r.some THEN "some" ELSE "none", val |-> r.val]
    IN  IF h.memKind = "monitor" THEN MonitorReadMem(h.image, addr, size)
        ELSE Option(SpaceRead(h.image, addr, size))

\* self.mem.write_mem: [ok, panic, h]
MemWrite(h, addr, size, data) ==
    LET Stored(st) == [ok |-> TRUE, panic |-> st.panic,
                       h |-> [h EXCEPT !.image = st.image, !.pending = st.pending]]
        Written(w) == [ok |-> w.ok, panic |-> FALSE, h |-> [h EXCEPT !.image = w.image]]
    IN  IF h.memKind = "monitor"
        THEN Stored(MonitorWriteMem(h.image, h.pending, addr, size, data))
        ELSE Written(SpaceWrite(h.image, addr, size, data))

\* addr & align_mask != 0
Misaligned(addr, size) == addr[1] % SizeBytes(size) # 0

\* bitwise complement and two's complement subtraction
Not64(a) == [j \in 1..4 |-> Limb - 1 - a[j]]

Sub64(a, b) == Add64(a, Add64(Not64(b), U64(1)))

\* two's complement negation, the sign bit, and the magnitude of an i64
Neg64(a) == Add64(Not64(a), U64(1))

IsNeg(a) == a[4] >= Limb \div 2

Abs64(a) == IF IsNeg(a) THEN Neg64(a) ELSE a

\* bit i (0..63) of a, and a with bit i set
Bit(a, i) == (a[(i \div 16) + 1] \div (2 ^ (i % 16))) % 2

SetBit(a, i) == [a EXCEPT ![(i \div 16) + 1] = @ + 2 ^ (i % 16)]

\* u64::wrapping_mul: the low 8 bytes of the product, column by column
RECURSIVE Column(_, _, _, _)
Column(x, y, k, i) ==
    IF i > k THEN 0 ELSE x[i] * y[k + 1 - i] + Column(x, y, k, i + 1)

RECURSIVE Carry(_, _, _, _, _)
Carry(x, y, k, carry, bytes) ==
    LET Put(t) == Carry(x, y, k + 1, t \div 256, Append(bytes, t % 256))
    IN  IF k > 8 THEN bytes ELSE Put(Column(x, y, k, 1) + carry)

Mul64(a, b) == FromLeBytes(Carry(ToLeBytes(a, 8), ToLeBytes(b, 8), 1, 0, <<>>))

\* u64 division, bit by bit from bit i down to bit lo: st is
\* <<quotient, remainder>>
RECURSIVE DivBits(_, _, _, _, _)
DivBits(a, b, i, lo, st) ==
    LET Step(top, r2) ==
            IF top \/ ~Less64(r2, b)
            THEN DivBits(a, b, i - 1, lo, <<SetBit(st[1], i), Sub64(r2, b)>>)
            ELSE DivBits(a, b, i - 1, lo, <<st[1], r2>>)
    IN  IF i < lo THEN st
        ELSE Step(IsNeg(st[2]), Add64(Add64(st[2], st[2]), U64(Bit(a, i))))

\* <<a / b, a % b>> for b # 0, the 64 bits taken byte by byte
UDivMod(a, b) ==
    DivBits(a, b, 7, 0,
      DivBits(a, b, 15, 8,
        DivBits(a, b, 23, 16,
          DivBits(a, b, 31, 24,
            DivBits(a, b, 39, 32,
              DivBits(a, b, 47, 40,
                DivBits(a, b, 55, 48,
                  DivBits(a, b, 63, 56, <<Zero64, Zero64>>))))))))

\* i64::wrapping_div and i64::wrapping_rem on the bit patterns, for b # 0:
\* the quotient truncates towards zero, the remainder has the dividend's sign
WrappingDiv(a, b) ==
    LET Signed_(qr) == IF IsNeg(a) # IsNeg(b) THEN Neg64(qr[1]) ELSE qr[1]
    IN  Signed_(UDivMod(Abs64(a), Abs64(b)))

WrappingRem(a, b) ==
    LET Signed_(qr) == IF IsNeg(a) THEN Neg64(qr[2]) ELSE qr[2]
    IN  Signed_(UDivMod(Abs64(a), Abs64(b)))

\* the closures of process_mul, process_mulw, process_div, process_divu,
\* process_rem, process_remu and process_remuw
MulFn(a, b) == Mul64(a, b)

MulwFn(a, b) ==
    SignExtend(Truncate(Mul64(Truncate(a, 32), Truncate(b, 32)), 32), 32)

DivFn(a, b) == IF b = Zero64 THEN Max64 ELSE WrappingDiv(a, b)

DivuFn(a, b) == IF b = Zero64 THEN Max64 ELSE UDivMod(a, b)[1]

\* a remainder that takes the sign of the divisor
RemFn_DivisorSign(a, b) ==
    LET Signed_(qr) == IF IsNeg(b) THEN Neg64(qr[2]) ELSE qr[2]
    IN  IF b = Zero64 THEN a ELSE Signed_(UDivMod(Abs64(a), Abs64(b)))

RemFn(a, b) == IF b = Zero64 THEN a ELSE WrappingRem(a, b)

RemuFn(a, b) == IF b = Zero64 THEN a ELSE UDivMod(a, b)[2]

\* `a as u32 % b as u32` panics when the low 32 bits of b are zero
RemuwPanics(a, b) == b # Zero64 /\ Truncate(b, 32) = Zero64

RemuwFn(a, b) ==
    IF b = Zero64 THEN Truncate(a, 32)
    ELSE SignExtend(UDivMod(Truncate(a, 32), Truncate(b, 32))[2], 32)

\* the closures of the ALU handlers covered by this model
AluCovered ==
    {"add", "sub", "slt", "sltu", "mul", "mulw", "div", "divu", "rem", "remu",
     "remuw"}

\* an ALU closure that panics on its operands
AluPanics(op, a, b) == op = "remuw" /\ RemuwPanics(a, b)

AluFn(op, a, b) ==
    CASE op = "add" -> Add64(a, b)
      [] op = "sub" -> Sub64(a, b)
      [] op = "slt" -> IF SLess64(a, b) THEN U64(1) ELSE Zero64
      [] op = "sltu" -> IF Less64(a, b) THEN U64(1) ELSE Zero64
      [] op = "mul" -> MulFn(a, b)
      [] op = "mulw" -> MulwFn(a, b)
      [] op = "div" -> DivFn(a, b)
      [] op = "divu" -> DivuFn(a, b)
      [] op = "rem" -> RemFn(a, b)
      [] op = "remu" -> RemuFn(a, b)
      [] op = "remuw" -> RemuwFn(a, b)

\* the closures of the branch handlers
BranchFn(op, a, b) ==
    CASE op = "beq" -> a = b
      [] op = "bne" -> a # b
      [] op = "blt" -> SLess64(a, b)
      [] op = "bltu" -> Less64(a, b)
      [] op = "bge" -> ~SLess64(a, b)
      [] op = "bgeu" -> ~Less64(a, b)

\* a & b and a | b
RECURSIVE AndBits(_, _, _)
AndBits(x, y, n) ==
    IF n = 0 THEN 0
    ELSE (x % 2) * (y % 2) + 2 * AndBits(x \div 2, y \div 2, n - 1)

And64(a, b) == [j \in 1..4 |-> AndBits(a[j], b[j], 16)]

Or64(a, b) == [j \in 1..4 |-> a[j] + b[j] - AndBits(a[j], b[j], 16)]

\* the closures of the AMO handlers
AmoFn(op, a, b) ==
    CASE op \in {"amoswapw", "amoswapd"} -> b
      [] op \in {"amoaddw", "amoaddd"} -> Add64(a, b)
      [] op = "amoorw" -> Or64(a, b)
      [] op = "amoandw" -> And64(a, b)

\* an AMO*.W that hands rd the word it stores instead of the word it read
execute_amow_NewToRd(h, insn, op) ==
    LET Wrote(w) == IF w.panic THEN Panic(w.h) ELSE Ok(w.h, FALSE)
        Rmw(rs1_addr, r1_final) ==
            Wrote(MemWrite(WriteReg(h, rd(insn), r1_final), rs1_addr, "Word",
                           r1_final))
        Read(rs1_addr, r) ==
            CASE r.kind = "panic" -> Panic(h)
              [] r.kind = "none" ->
                   Err(h, Exception("LoadAccessFault", rs1_addr, Zero64))
              [] OTHER ->
                   Rmw(rs1_addr,
                       AmoFn(op, SignExtend(r.val, 32),
                             SignExtend(read_register(h.registers, rs2(insn)), 32)))
        At(rs1_addr) == Read(rs1_addr, MemRead(h, rs1_addr, "Word"))
    IN  At(read_register(h.registers, rs1(insn)))

execute_amow(h, insn, op) ==
    LET Wrote(w) == IF w.panic THEN Panic(w.h) ELSE Ok(w.h, FALSE)
        Rmw(rs1_addr, rs1_value_signed_ext, rs2_32_extended) ==
            Wrote(MemWrite(WriteReg(h, rd(insn), rs1_value_signed_ext), rs1_addr,
                           "Word", AmoFn(op, rs1_value_signed_ext, rs2_32_extended)))
        Read(rs1_addr, r) ==
            CASE r.kind = "panic" -> Panic(h)
              [] r.kind = "none" ->
                   Err(h, Exception("LoadAccessFault", rs1_addr, Zero64))
              [] OTHER ->
                   Rmw(rs1_addr, SignExtend(r.val, 32),
                       SignExtend(read_register(h.registers, rs2(insn)), 32))
        At(rs1_addr) == Read(rs1_addr, MemRead(h, rs1_addr, "Word"))
    IN  At(read_register(h.registers, rs1(insn)))

execute_amod(h, insn, op) ==
    LET Wrote(w) == IF w.panic THEN Panic(w.h) ELSE Ok(w.h, FALSE)
        Rmw(rs1_addr, rs1_value, rs2_value) ==
            Wrote(MemWrite(WriteReg(h, rd(insn), rs1_value), rs1_addr,
                           "DoubleWord", AmoFn(op, rs1_value, rs2_value)))
        Read(rs1_addr, r) ==
            CASE r.kind = "panic" -> Panic(h)
              [] r.kind = "none" ->
                   Err(h, Exception("LoadAccessFault", rs1_addr, Zero64))
              [] OTHER -> Rmw(rs1_addr, r.val, read_register(h.registers, rs2(insn)))
        At(rs1_addr) == Read(rs1_addr, MemRead(h, rs1_addr, "DoubleWord"))
    IN  At(read_register(h.registers, rs1(insn)))

execute_reg_reg_op(h, insn, op) ==
    LET a == read_register(h.registers, rs1(insn))
        b == read_register(h.registers, rs2(insn))
    IN  WriteReg(h, rd(insn), AluFn(op, a, b))

execute_reg_imm_op(h, insn, op) ==
    LET a == read_register(h.registers, rs1(insn))
        b == Imm64(imm_i(insn))
    IN  WriteReg(h, rd(insn), AluFn(op, a, b))

\* [h, taken]
execute_branch(h, insn, op) ==
    LET Branch(a, b) ==
            IF BranchFn(op, a, b)
            THEN [h |-> [h EXCEPT !.pc = Add64(h.pc, Imm64(imm_b(insn)))],
                  taken |-> TRUE]
            ELSE [h |-> h, taken |-> FALSE]
    IN  Branch(read_register(h.registers, rs1(insn)),
               read_register(h.registers, rs2(insn)))

execute_amo_load(h, insn, size) ==
    LET Read(addr, r) ==
            CASE r.kind = "panic" -> Panic(h)
              [] r.kind = "none" -> Err(h, Exception("LoadAccessFault", addr, Zero64))
              [] OTHER ->
                   Ok(WriteReg(h, rd(insn), SignExtend(r.val, 8 * SizeBytes(size))),
                      FALSE)
        At(addr) ==
            IF Misaligned(addr, size)
            THEN Err(h, Exception("AlignmentFault", addr, Zero64))
            ELSE Read(addr, MemRead(h, addr, size))
    IN  At(read_register(h.registers, rs1(insn)))

\* a store-conditional that finds no reservation: no store, rd = 1
execute_amo_store_Failing(h, insn, size) ==
    LET At(addr) ==
            IF Misaligned(addr, size)
            THEN Err(h, Exception("AlignmentFault", addr, Zero64))
            ELSE Ok(WriteReg(h, rd(insn), U64(1)), FALSE)
    IN  At(read_register(h.registers, rs1(insn)))

execute_amo_store(h, insn, size) ==
    LET Wrote(addr, w) ==
            CASE w.panic -> Panic(w.h)
              [] w.ok -> Ok(WriteReg(w.h, rd(insn), Zero64), FALSE)
              [] OTHER -> Err(w.h, Exception("StoreAccessFault", addr, Zero64))
        At(addr, data) ==
            IF Misaligned(addr, size)
            THEN Err(h, Exception("AlignmentFault", addr, Zero64))
            ELSE Wrote(addr, MemWrite(h, addr, size, data))
    IN  At(read_register(h.registers, rs1(insn)),
           read_register(h.registers, rs2(insn)))

\* a load that reads memory first and checks the alignment afterwards
execute_load_ReadFirst(h, insn, size, signed) ==
    LET Read(addr, r) ==
            CASE r.kind = "panic" -> Panic(h)
              [] r.kind = "none" -> Err(h, Exception("LoadAccessFault", addr, Zero64))
              [] Misaligned(addr, size) ->
                   Err(h, Exception("AlignmentFault", addr, Zero64))
              [] OTHER ->
                   Ok(WriteReg(h, rd(insn),
                               IF signed THEN SignExtend(r.val, 8 * SizeBytes(size))
                               ELSE r.val), FALSE)
        At(addr) == Read(addr, MemRead(h, addr, size))
    IN  At(Add64(read_register(h.registers, rs1(insn)), Imm64(imm_i(insn))))

execute_load(h, insn, size, signed) ==
    LET Read(addr, r) ==
            CASE r.kind = "panic" -> Panic(h)
              [] r.kind = "none" -> Err(h, Exception("LoadAccessFault", addr, Zero64))
              [] OTHER ->
                   Ok(WriteReg(h, rd(insn),
                               IF signed THEN SignExtend(r.val, 8 * SizeBytes(size))
                               ELSE r.val), FALSE)
        At(addr) ==
            IF Misaligned(addr, size)
            THEN Err(h, Exception("AlignmentFault", addr, Zero64))
            ELSE Read(addr, MemRead(h, addr, size))
    IN  At(Add64(read_register(h.registers, rs1(insn)), Imm64(imm_i(insn))))

\* a store that writes memory first and checks the alignment afterwards
execute_store_WriteFirst(h, insn, size) ==
    LET Wrote(addr, w) ==
            CASE Misaligned(addr, size) ->
                   Err(w.h, Exception("AlignmentFault", addr, Zero64))
              [] w.ok -> Ok(w.h, FALSE)
              [] OTHER -> Err(w.h, Exception("StoreAccessFault", addr, Zero64))
        At(addr, data) == Wrote(addr, MemWrite(h, addr, size, data))
    IN  At(Add64(read_register(h.registers, rs1(insn)), Imm64(imm_s(insn))),
           read_register(h.registers, rs2(insn)))

execute_store(h, insn, size) ==
    LET Wrote(addr, w) ==
            CASE w.panic -> Panic(w.h)
              [] w.ok -> Ok(w.h, FALSE)
              [] OTHER -> Err(w.h, Exception("StoreAccessFault", addr, Zero64))
        At(addr, data) ==
            IF Misaligned(addr, size)
            THEN Err(h, Exception("AlignmentFault", addr, Zero64))
            ELSE Wrote(addr, MemWrite(h, addr, size, data))
    IN  At(Add64(read_register(h.registers, rs1(insn)), Imm64(imm_s(insn))),
           read_register(h.registers, rs2(insn)))

process_rdtime(h, insn) == Ok(WriteReg(h, rd(insn), Zero64), FALSE)

process_addiw(h, insn) ==
    Ok(WriteReg(h, rd(insn),
                SignExtend(Truncate(Add64(read_register(h.registers, rs1(insn)),
                                          Imm64(imm_i(insn))), 32), 32)), FALSE)

process_lui(h, insn) == Ok(WriteReg(h, rd(insn), imm_u(insn)), FALSE)

process_auipc(h, insn) == Ok(WriteReg(h, rd(insn), Add64(h.pc, imm_u(insn))), FALSE)

process_jal(h, insn) ==
    Ok([WriteReg(h, rd(insn), Add64(h.pc, U64(4)))
            EXCEPT !.pc = Add64(h.pc, Imm64(imm_j(insn)))], TRUE)

\* a JALR that links first and reads rs1 afterwards
process_jalr_LinkFirst(h, insn) ==
    LET Jump(l, t) == Ok([l EXCEPT !.pc = <<t[1] - (t[1] % 2), t[2], t[3], t[4]>>], TRUE)
        Linked(l) == Jump(l, Add64(read_register(l.registers, rs1(insn)),
                                   Imm64(imm_i(insn))))
    IN  Linked(WriteReg(h, rd(insn), Add64(h.pc, U64(4))))

process_jalr(h, insn) ==
    LET Jump(t) ==
            Ok([WriteReg(h, rd(insn), Add64(h.pc, U64(4)))
                    EXCEPT !.pc = <<t[1] - (t[1] % 2), t[2], t[3], t[4]>>], TRUE)
    IN  Jump(Add64(read_register(h.registers, rs1(insn)), Imm64(imm_i(insn))))

process_fence(h, insn) == Ok(h, FALSE)

\* the size and the signedness of the load handlers
LoadSize(op) ==
    CASE op \in {"lb", "lbu"} -> "Byte"
      [] op \in {"lh", "lhu"} -> "HalfWord"
      [] op \in {"lw", "lwu"} -> "Word"
      [] op = "ld" -> "DoubleWord"

\* loads of which only LB and LH are signed
LoadSigned_NoWord(op) == op \in {"lb", "lh"}

LoadSigned(op) == op \in {"lb", "lh", "lw"}

StoreSize(op) ==
    CASE op = "sb" -> "Byte"
      [] op = "sh" -> "HalfWord"
      [] op = "sw" -> "Word"
      [] op = "sd" -> "DoubleWord"

\* process_instruction: decode the word and call its handler;
\* kind "none" when the word does not decode
process_instruction(h, insn) ==
    LET Branched(b) == Ok(b.h, b.taken)
        Handler(op) ==
            CASE op = "none" -> Result("none", NoException, h, FALSE)
              [] op \in AluCovered ->
                   IF AluPanics(op, read_register(h.registers, rs1(insn)),
                                read_register(h.registers, rs2(insn)))
                   THEN Panic(h)
                   ELSE Ok(execute_reg_reg_op(h, insn, op), FALSE)
              [] op = "addi" -> Ok(execute_reg_imm_op(h, insn, "add"), FALSE)
              [] op = "slti" -> Ok(execute_reg_imm_op(h, insn, "slt"), FALSE)
              [] op = "sltui" -> Ok(execute_reg_imm_op(h, insn, "sltu"), FALSE)
              [] op = "addiw" -> process_addiw(h, insn)
              [] op = "rdtime" -> process_rdtime(h, insn)
              [] op = "lui" -> process_lui(h, insn)
              [] op = "auipc" -> process_auipc(h, insn)
              [] op \in {"beq", "bne", "blt", "bltu", "bge", "bgeu"} ->
                   Branched(execute_branch(h, insn, op))
              [] op \in {"lb", "lbu", "lh", "lhu", "lw", "lwu", "ld"} ->
                   execute_load(h, insn, LoadSize(op), LoadSigned(op))
              [] op \in {"sb", "sh", "sw", "sd"} -> execute_store(h, insn, StoreSize(op))
              [] op = "amolrw" -> execute_amo_load(h, insn, "Word")
              [] op = "amolrd" -> execute_amo_load(h, insn, "DoubleWord")
              [] op = "amoscw" -> execute_amo_store(h, insn, "Word")
              [] op = "amoscd" -> execute_amo_store(h, insn, "DoubleWord")
              [] op \in {"amoswapw", "amoorw", "amoandw", "amoaddw"} ->
                   execute_amow(h, insn, op)
              [] op \in {"amoswapd", "amoaddd"} -> execute_amod(h, insn, op)
              [] op = "jal" -> process_jal(h, insn)
              [] op = "jalr" -> process_jalr(h, insn)
              [] op = "fence" -> process_fence(h, insn)
              [] OTHER -> Unmodelled(h)
    IN  Handler(OpName(insn))

\* a step that adds 4 to the PC whatever the handler reported
NextPcAlwaysAdd(p, pc_updated) == Add64(p, U64(4))

\* step: `if !pc_updated { pc += 4 }`
NextPc(p, pc_updated) == IF pc_updated THEN p ELSE Add64(p, U64(4))

\* an IllegalInstruction that reports the address after the offending word
IllegalInstructionNext(p, insn) ==
    [name |-> "IllegalInstruction", a |-> Add64(p, U64(4)), insn |-> insn]

\* step: InstructionException::IllegalInstruction(self.hart_state.pc, next_insn)
IllegalInstruction(p, insn) == Exception("IllegalInstruction", p, insn)

\* InstructionExecutor::step: [res, insn, fetched]
step(h) ==
    LET Done(next_insn, r) ==
            [res |-> CASE r.kind = "ok" ->
                            Ok([r.h EXCEPT !.pc = NextPc(r.h.pc, r.pc_updated)],
                               r.pc_updated)
                       [] r.kind = "none" ->
                            Err(r.h, IllegalInstruction(r.h.pc, next_insn))
                       [] OTHER -> r,
             insn |-> next_insn, fetched |-> TRUE]
        Fetched(h0, f) ==
            CASE f.kind = "panic" ->
                   [res |-> Panic(h0), insn |-> Zero64, fetched |-> FALSE]
              [] f.kind = "none" ->
                   [res |-> Err(h0, Exception("FetchError", h0.pc, Zero64)),
                    insn |-> Zero64, fetched |-> FALSE]
              [] OTHER ->
                   Done(Truncate(f.val, 32),
                        process_instruction(h0, Truncate(f.val, 32)))
        Cleared(h0) == Fetched(h0, MemRead(h0, h0.pc, "Word"))
    IN  Cleared([h EXCEPT !.last_register_write = None])


-----------------------------------------------------------------------------
(* The monitor driven call by call: stores, loads, save_op and commit in any *)
(* order                                                                      *)

\* the last load: the address, the width in bytes and the value returned
NoRet == [addr |-> Zero64, n |-> 0, val |-> Zero64]

\* the observation of a step: its result, the PC and the registers it started
\* from, the word it fetched, the error it returned, the writes it issued
NoStep ==
    [kind |-> "none", pc0 |-> Zero64, insn |-> Zero64, fetched |-> FALSE,
     err |-> NoException, regs0 |-> HartNew.registers, writes |-> {}]

\* a store call as made: the address, the data or the slice, the width in bytes
Call(op, addr, data, slice, n) ==
    [op |-> op, addr |-> addr, data |-> data, slice |-> slice, n |-> n]

\* the last session call: the operation, its arguments, what it returned,
\* the monitor before it, the pending writes the last clear_session dropped,
\* whether load_register(2) was called before it, and whether it was called
\* before it since the last clear_session
NoCall ==
    [op |-> "none", idx |-> 0, addr |-> Zero64, data |-> Zero64, ok |-> TRUE,
     val |-> Zero64, image |-> <<>>, pending |-> {}, op_result |-> NoOpResult,
     syscalls |-> <<>>, initial |-> FALSE, dropped |-> {}, x2read |-> FALSE,
     x2session |-> FALSE]

\* no function applied yet
NoInput == [op |-> "none", a |-> Zero64, b |-> Zero64, insn |-> Zero64, prog |-> <<>>]

NoOutput == [kind |-> "none", val |-> Zero64, name |-> ""]

\* sample inputs
SampleWord == <<513, 1027, 1541, 2055>>

SampleSlice == <<7, 9, 11, 13, 15, 17, 19, 21, 23>>

SampleProgram == [k \in 1..(MEM_SIZE \div 4) |-> <<40960 + k, 45056 + k, 0, 0>>]

A0 == U64(SYSTEM_START + 8)

AEnd == U64(MEM_SIZE - 8)

AOut == U64(MEM_SIZE)

Sizes == {"Byte", "Word", "DoubleWord"}

InitRest ==
    /\ pc = HartNew.pc
    /\ last_register_write = HartNew.last_register_write
    /\ pending_writes = {}
    /\ op_result = NoOpResult
    /\ syscalls = <<>>
    /\ initial = FALSE
    /\ status = "running"
    /\ steps = 0
    /\ nstores = 0
    /\ ncommits = 0
    /\ last = NoStep
    /\ prevWrites = {}
    /\ ret = NoRet
    /\ calls = <<>>
    /\ applied = <<>>
    /\ before = NoCall
    /\ fout = NoOutput

InitState ==
    /\ registers = HartNew.registers
    /\ InitRest

InitCommon ==
    /\ InitState
    /\ fin = NoInput

InitMon ==
    /\ InitCommon
    /\ memKind = "monitor"
    /\ image = MemoryImageNew(SampleProgram)
    /\ snap = image

MonUnchanged ==
    UNCHANGED <<hartVars, memKind, steps, last, prevWrites, before, fin, fout>>

\* a store call: st is the monitor after it
DoStore(st, call) ==
    /\ status = "running"
    /\ nstores < MaxStores
    /\ nstores' = nstores + 1
    /\ image' = st.image
    /\ pending_writes' = st.pending
    /\ status' = IF st.panic THEN "panicked" ELSE "running"
    /\ calls' = IF st.panic THEN calls ELSE Append(calls, call)
    /\ UNCHANGED <<op_result, syscalls, initial, snap, applied, ncommits, ret>>
    /\ MonUnchanged

\* a load call: r is [panic, val]
DoLoad(r, addr, n) ==
    /\ status = "running"
    /\ status' = IF r.panic THEN "panicked" ELSE "running"
    /\ ret' = IF r.panic THEN ret ELSE [addr |-> addr, n |-> n, val |-> r.val]
    /\ UNCHANGED <<image, pending_writes, op_result, syscalls, initial, snap,
                   calls, applied, nstores, ncommits>>
    /\ MonUnchanged

MStoreU8 ==
    \E d \in {1, 5} :
        DoStore(StoreU8(image, pending_writes, A0, d),
                Call("int", A0, U64(d), <<>>, 1))

MStoreUN ==
    \E n \in {4, 8}, a \in {A0, Add64(A0, U64(1))} :
        DoStore(StoreUN(image, pending_writes, a, Truncate(SampleWord, 8 * n), n),
                Call("int", a, Truncate(SampleWord, 8 * n), <<>>, n))

MStoreRegion ==
    \E a \in {PlaygroundBase, AEnd} :
        DoStore(StoreRegion(image, pending_writes, a, SampleSlice),
                Call("slice", a, Zero64, SampleSlice, Len(SampleSlice)))

MStoreRegister ==
    \E idx \in {1} :
        DoStore(StoreRegister(image, pending_writes, idx, SampleWord),
                Call("int", get_register_addr(idx), SampleWord, <<>>, 8))

MWriteMem ==
    \E size \in Sizes :
        DoStore(MonitorWriteMem(image, pending_writes, A0, size, SampleWord),
                Call("int", A0, Truncate(SampleWord, 8 * SizeBytes(size)),
                     <<>>, SizeBytes(size)))

MLoadU8 ==
    \E a \in {A0, AOut} :
        DoLoad(LoadU8(image, a), a, 1)

MLoadUN ==
    \E n \in {4, 8}, a \in {A0, Add64(A0, U64(1))} :
        DoLoad(LoadUN(image, a, n), a, n)

MReadMem ==
    \E size \in Sizes :
        \E r \in {MonitorReadMem(image, A0, size)} :
            DoLoad([panic |-> r.kind = "panic", val |-> r.val], A0, SizeBytes(size))

\* load_register of a register other than the stack pointer
MLoadRegister ==
    \E idx \in {1} :
        \E r \in {LoadRegister(image, pending_writes, initial, idx)} :
            /\ initial' = r.initial
            /\ pending_writes' = r.pending
            /\ status = "running"
            /\ status' = IF r.panic THEN "panicked" ELSE "running"
            /\ ret' = [addr |-> get_register_addr(idx), n |-> 8, val |-> r.val]
            /\ UNCHANGED <<image, op_result, syscalls, snap, calls, applied,
                           nstores, ncommits>>
            /\ MonUnchanged

MSaveOp ==
    /\ status = "running"
    /\ op_result' = SaveOp([syscall |-> 0])
    /\ UNCHANGED <<image, pending_writes, syscalls, initial, status, snap,
                   calls, applied, nstores, ncommits, ret>>
    /\ MonUnchanged

MCommit ==
    \E c \in {Commit(image, pending_writes, op_result, syscalls)} :
        /\ status = "running"
        /\ ncommits < MaxCommits
        /\ ncommits' = ncommits + 1
        /\ image' = c.image
        /\ pending_writes' = c.pending
        /\ op_result' = c.op_result
        /\ syscalls' = c.syscalls
        /\ status' = IF c.panic THEN "panicked" ELSE "running"
        /\ snap' = c.image
        /\ applied' = calls
        /\ calls' = <<>>
        /\ ret' = NoRet
        /\ UNCHANGED <<initial, nstores>>
        /\ MonUnchanged

NextMon ==
    \/ MStoreU8
    \/ MStoreUN
    \/ MStoreRegion
    \/ MStoreRegister
    \/ MWriteMem
    \/ MLoadU8
    \/ MLoadUN
    \/ MReadMem
    \/ MLoadRegister
    \/ MSaveOp
    \/ MCommit

SpecMon == InitMon /\ [][NextMon]_vars

-----------------------------------------------------------------------------
(* The monitor's register file and session calls: store_register,            *)
(* load_register, a byte store of the executor, save_op, commit,             *)
(* clear_segment and clear_session in any order                              *)

SB_x2_0_x1 == <<32803, 32, 0, 0>>

AStoreTargets == {A0, AOut, PlaygroundBase}

\* the program ends below the register file, whose slots start as zero
InitSess ==
    /\ InitCommon
    /\ memKind = "monitor"
    /\ image = MemoryImageNew(SubSeq(SampleProgram, 1, SYSTEM_START \div 4))
    /\ snap = image

\* the record of a call made on the present monitor
Before(op, idx, addr, data, ok, val, dropped, x2read) ==
    [op |-> op, idx |-> idx, addr |-> addr, data |-> data, ok |-> ok, val |-> val,
     image |-> image, pending |-> pending_writes, op_result |-> op_result,
     syscalls |-> syscalls, initial |-> initial, dropped |-> dropped,
     x2read |-> x2read,
     x2session |-> /\ before.op # "clear_session"
                   /\ \/ before.x2session
                      \/ before.op = "load_register" /\ before.idx = 2]

\* load_register(2) was called before the present call
X2Read == before.x2read \/ (before.op = "load_register" /\ before.idx = 2)

\* every session call counts as one call
SessUnchanged ==
    /\ steps < MaxSessCalls
    /\ steps' = steps + 1
    /\ UNCHANGED <<hartVars, memKind, last, prevWrites, ret, snap, calls,
                   applied, fin, fout>>

SStoreRegister ==
    \E c \in {<<2, Zero64>>, <<2, SampleWord>>, <<1, SampleWord>>, <<0, SampleWord>>} :
        \E idx \in {c[1]}, data \in {c[2]},
           st \in {StoreRegister(image, pending_writes, c[1], c[2])} :
            /\ status = "running"
            /\ nstores < MaxSessStores
            /\ nstores' = nstores + 1
            /\ pending_writes' = st.pending
            /\ image' = st.image
            /\ status' = IF st.panic THEN "panicked" ELSE "running"
            /\ before' = Before("store_register", idx, get_register_addr(idx), data,
                                TRUE, Zero64, before.dropped, X2Read)
            /\ UNCHANGED <<op_result, syscalls, initial, ncommits>>
            /\ SessUnchanged

SLoadRegister ==
    \E idx \in {0, 1, 2} :
        \E r \in {LoadRegister(image, pending_writes, initial, idx)} :
            /\ status = "running"
            /\ initial' = r.initial
            /\ pending_writes' = r.pending
            /\ status' = IF r.panic THEN "panicked" ELSE "running"
            /\ before' = Before("load_register", idx, get_register_addr(idx), Zero64,
                                TRUE, r.val, before.dropped, X2Read)
            /\ UNCHANGED <<image, op_result, syscalls, nstores, ncommits>>
            /\ SessUnchanged

\* SB x2,0(x1) executed on the monitor with x1 = a and x2 = 3
SExecStore ==
    \E a \in AStoreTargets :
        \E r \in {execute_store(Hart([HartNew.registers EXCEPT ![1] = a, ![2] = U64(3)],
                                     Zero64, None, image, pending_writes, "monitor"),
                                SB_x2_0_x1, "Byte")} :
            /\ status = "running"
            /\ nstores < MaxSessStores
            /\ nstores' = nstores + 1
            /\ pending_writes' = r.h.pending
            /\ image' = r.h.image
            /\ status' = IF r.kind = "panic" THEN "panicked" ELSE "running"
            /\ before' = Before("write_mem", 0, a, U64(3), r.kind = "ok", Zero64,
                                before.dropped, X2Read)
            /\ UNCHANGED <<op_result, syscalls, initial, ncommits>>
            /\ SessUnchanged

SSaveOp ==
    \E syscall \in {0, 7, 9} :
        /\ status = "running"
        /\ op_result' = SaveOp([syscall |-> syscall])
        /\ before' = Before("save_op", 0, Zero64, Zero64, TRUE, Zero64,
                            before.dropped, X2Read)
        /\ UNCHANGED <<image, pending_writes, syscalls, initial, status, nstores,
                       ncommits>>
        /\ SessUnchanged

SCommit ==
    \E c \in {Commit(image, pending_writes, op_result, syscalls)} :
        /\ status = "running"
        /\ ncommits' = ncommits + 1
        /\ image' = c.image
        /\ pending_writes' = c.pending
        /\ op_result' = c.op_result
        /\ syscalls' = c.syscalls
        /\ status' = IF c.panic THEN "panicked" ELSE "running"
        /\ before' = Before("commit", 0, Zero64, Zero64, TRUE, Zero64,
                            before.dropped, X2Read)
        /\ UNCHANGED <<initial, nstores>>
        /\ SessUnchanged

SClearSegment ==
    \E c \in {ClearSegment(pending_writes, syscalls)} :
        /\ status = "running"
        /\ pending_writes' = c.pending
        /\ syscalls' = c.syscalls
        /\ before' = Before("clear_segment", 0, Zero64, Zero64, TRUE, Zero64,
                            before.dropped, X2Read)
        /\ UNCHANGED <<image, op_result, initial, status, nstores, ncommits>>
        /\ SessUnchanged

SClearSession ==
    \E c \in {ClearSession(pending_writes, syscalls)} :
        /\ status = "running"
        /\ pending_writes' = c.pending
        /\ syscalls' = c.syscalls
        /\ before' = Before("clear_session", 0, Zero64, Zero64, TRUE, Zero64,
                            before.dropped \cup pending_writes, X2Read)
        /\ UNCHANGED <<image, op_result, initial, status, nstores, ncommits>>
        /\ SessUnchanged

NextSess ==
    \/ SStoreRegister
    \/ SLoadRegister
    \/ SExecStore
    \/ SSaveOp
    \/ SCommit
    \/ SClearSegment
    \/ SClearSession

SpecSess == InitSess /\ [][NextSess]_vars

-----------------------------------------------------------------------------
(* OpCode::decode applied to words made of every major opcode of the table,  *)
(* two opcodes outside it, and a choice of funct3, funct7 and rs2            *)

DecodeOpcodes == {3, 15, 19, 23, 27, 35, 47, 51, 55, 59, 99, 103, 111, 115, 0, 127}

DecodeFunct7 == {0, 1, 4, 8, 12, 32, 48, 127}

\* the word with the given opcode, funct3, funct7 and rs2, its other bits zero
WordOf(opc, f3, f7, r2) == <<opc + f3 * 4096, r2 * 16 + f7 * 512, 0, 0>>

DecodeWords ==
    {WordOf(opc, f3, f7, r2) :
         opc \in DecodeOpcodes, f3 \in 0..7, f7 \in DecodeFunct7, r2 \in 0..2}

\* a function under test runs on no machine: the hart and the monitor stay new
InitFn ==
    /\ InitState
    /\ memKind = "space"
    /\ image = MemoryImageNew(<<>>)
    /\ snap = image

FnUnchanged ==
    UNCHANGED <<image, pending_writes, op_result, syscalls, initial, memKind,
                nstores, ncommits, last, prevWrites, ret, snap, calls, applied,
                before, fin>>

InitDecode ==
    /\ InitFn
    /\ \E w \in DecodeWords : fin = [op |-> "decode", a |-> Zero64, b |-> Zero64,
                                    insn |-> w, prog |-> <<>>]

ApplyDecode ==
    /\ fin.op = "decode"
    /\ fout = NoOutput
    /\ fout' = decode(fin.insn)
    /\ UNCHANGED <<hartVars, status, steps>>
    /\ FnUnchanged

NextDecode == ApplyDecode

SpecDecode == InitDecode /\ [][NextDecode]_vars

-----------------------------------------------------------------------------
(* The multiply and divide instructions and ADDIW executed on a hart whose   *)
(* x1 and x2 hold chosen operands                                            *)

DIV_x3_x1_x2 == <<49587, 544, 0, 0>>
DIVU_x3_x1_x2 == <<53683, 544, 0, 0>>
REM_x4_x1_x2 == <<57907, 544, 0, 0>>
REMU_x4_x1_x2 == <<62003, 544, 0, 0>>
MUL_x3_x1_x2 == <<33203, 544, 0, 0>>
MULW_x3_x1_x2 == <<33211, 544, 0, 0>>
REMUW_x3_x1_x2 == <<61883, 544, 0, 0>>

ADDIW_x3_x1(imm) == <<33179, (imm % 4096) * 16, 0, 0>>

AddiwImms == {0, 1, 0 - 1, 2047, 0 - 2048}

MinI64 == <<0, 0, 0, Limb \div 2>>

MaxI64 == <<Limb - 1, Limb - 1, Limb - 1, (Limb \div 2) - 1>>

\* operands: small numbers, the edges of 32 and 64 bits, negative numbers
AluValues ==
    {Zero64, U64(1), U64(2), U64(3), U64(7), U64(10),
     <<Limb - 1, (Limb \div 2) - 1, 0, 0>>, <<0, Limb \div 2, 0, 0>>,
     <<Limb - 1, Limb - 1, 0, 0>>, <<0, 0, 1, 0>>, <<3, Limb \div 2, 1, 0>>,
     MaxI64, MinI64, Max64, Imm64(0 - 7), Imm64(0 - 10), SampleWord}

DivPrograms ==
    {<<DIV_x3_x1_x2, REM_x4_x1_x2>>, <<DIVU_x3_x1_x2, REMU_x4_x1_x2>>,
     <<REMUW_x3_x1_x2>>}

AddiwPrograms == {<<ADDIW_x3_x1(imm)>> : imm \in AddiwImms}

AluPrograms ==
    DivPrograms \cup {<<MULW_x3_x1_x2>>, <<MUL_x3_x1_x2>>} \cup AddiwPrograms

InitAlu ==
    /\ InitRest
    /\ memKind = "space"
    /\ image = MemoryImageNew(<<>>)
    /\ snap = image
    /\ \E prog \in AluPrograms, a \in AluValues, b \in AluValues :
           /\ prog \in AddiwPrograms => b = Zero64
           /\ fin = [op |-> "alu", a |-> a, b |-> b, insn |-> prog[1], prog |-> prog]
           /\ registers = [HartNew.registers EXCEPT ![1] = a, ![2] = b]

\* the next instruction of the program handed to process_instruction
ExecAlu ==
    /\ fin.op = "alu"
    /\ status = "running"
    /\ steps < Len(fin.prog)
    /\ \E r \in {process_instruction(Hart(registers, pc, None, image, pending_writes,
                                          memKind), fin.prog[steps + 1])} :
           /\ registers' = r.h.registers
           /\ last_register_write' = r.h.last_register_write
           /\ pc' = IF r.kind = "ok" THEN NextPc(r.h.pc, r.pc_updated) ELSE pc
           /\ status' = CASE r.kind = "ok" -> "running"
                          [] r.kind = "panic" -> "panicked"
                          [] r.kind = "unmodelled" -> "unmodelled"
                          [] OTHER -> "error"
           /\ fout' = [kind |-> r.kind,
                       val |-> r.h.registers[rd(fin.prog[steps + 1])],
                       name |-> OpName(fin.prog[steps + 1])]
    /\ steps' = steps + 1
    /\ FnUnchanged

NextAlu == ExecAlu

SpecAlu == InitAlu /\ [][NextAlu]_vars

-----------------------------------------------------------------------------
(* The executor stepping a loaded program: over the monitor, each step       *)
(* followed by save_op and commit, or over the memory space directly         *)

\* the instruction words programs are made of
ADDI_x1_x0_261 == <<147, 4176, 0, 0>>
ADDI_x0_x0_1 == <<19, 16, 0, 0>>
SB_x0_6_x0 == <<803, 0, 0, 0>>
SD_x1_8_x0 == <<13347, 16, 0, 0>>
LW_x1_1_x0 == <<8323, 16, 0, 0>>
LW_x1_0_x0 == <<8323, 0, 0, 0>>
LD_x2_m8_x0 == <<12547, 65408, 0, 0>>
LH_x3_m3_x0 == <<4483, 65488, 0, 0>>
SW_x1_2_x0 == <<8483, 16, 0, 0>>
SD_x0_m8_x0 == <<15395, 65024, 0, 0>>
JAL_x1_8 == <<239, 128, 0, 0>>
JAL_x0_m4 == <<61551, 65503, 0, 0>>
JALR_x1_5_x0 == <<231, 80, 0, 0>>
JALR_x0_6_x0 == <<103, 96, 0, 0>>
BEQ_x0_x0_8 == <<1123, 0, 0, 0>>
BNE_x0_x0_8 == <<5219, 0, 0, 0>>
LRW_x3_x1 == <<41391, 4096, 0, 0>>
SCD_x3_x0_x1 == <<45487, 6144, 0, 0>>
AMOADDW_x3_x1_x0 == <<8623, 16, 0, 0>>
FENCE == <<15, 0, 0, 0>>
RDTIME_x5 == <<8947, 49168, 0, 0>>
ILLEGAL == <<65535, 65535, 0, 0>>

InsnSet ==
    {ADDI_x1_x0_261, ADDI_x0_x0_1, SB_x0_6_x0, SD_x1_8_x0, LW_x1_1_x0, LW_x1_0_x0,
     LD_x2_m8_x0, LH_x3_m3_x0, SW_x1_2_x0, SD_x0_m8_x0, JAL_x1_8, JAL_x0_m4,
     JALR_x1_5_x0, JALR_x0_6_x0, BEQ_x0_x0_8, BNE_x0_x0_8, LRW_x3_x1, SCD_x3_x0_x1,
     AMOADDW_x3_x1_x0, FENCE, RDTIME_x5, ILLEGAL}

InitExec ==
    /\ InitCommon
    /\ memKind \in {"monitor", "space"}
    /\ \E program \in [1..ProgLen -> InsnSet] : image = MemoryImageNew(program)
    /\ snap = image

\* what a step leaves behind in the hart and in the ghosts
AfterStep(s) ==
    /\ registers' = s.res.h.registers
    /\ pc' = s.res.h.pc
    /\ last_register_write' = s.res.h.last_register_write
    /\ status' = CASE s.res.kind = "ok" -> "running"
                   [] s.res.kind = "err" -> "error"
                   [] s.res.kind = "panic" -> "panicked"
                   [] OTHER -> "unmodelled"
    /\ last' = [kind |-> s.res.kind, pc0 |-> pc, insn |-> s.insn,
                fetched |-> s.fetched, err |-> s.res.err, regs0 |-> registers,
                writes |-> s.res.h.pending]
    /\ prevWrites' = last.writes
    /\ snap' = image
    /\ steps' = steps + 1
    /\ UNCHANGED <<initial, memKind, nstores, ncommits, ret, calls, applied,
                   before, fin, fout>>

\* one iteration of the session driver: step, and when it succeeded save_op
\* and commit; an error ends the run
StepMonitor ==
    /\ status = "running"
    /\ memKind = "monitor"
    /\ steps < MaxSteps
    /\ \E s \in {step(Hart(registers, pc, last_register_write, image,
                           pending_writes, memKind))} :
           /\ AfterStep(s)
           /\ IF s.res.kind = "ok"
              THEN \E c \in {Commit(s.res.h.image, s.res.h.pending,
                                    SaveOp([syscall |-> 0]), syscalls)} :
                       /\ image' = c.image
                       /\ pending_writes' = c.pending
                       /\ op_result' = c.op_result
                       /\ syscalls' = c.syscalls
              ELSE /\ image' = s.res.h.image
                   /\ pending_writes' = s.res.h.pending
                   /\ UNCHANGED <<op_result, syscalls>>

\* one step of the executor over a plain memory space
StepSpace ==
    /\ status = "running"
    /\ memKind = "space"
    /\ steps < MaxSteps
    /\ \E s \in {step(Hart(registers, pc, last_register_write, image,
                           pending_writes, memKind))} :
           /\ AfterStep(s)
           /\ image' = s.res.h.image
           /\ pending_writes' = s.res.h.pending
           /\ UNCHANGED <<op_result, syscalls>>

Next ==
    \/ StepMonitor
    \/ StepSpace

Spec == InitExec /\ [][Next]_vars

-----------------------------------------------------------------------------
(* The executor stepping one load, jump or atomic instruction, before or     *)
(* after a FENCE, on a hart whose x1 and x2 hold chosen values, over a       *)
(* memory that holds two doublewords of data behind the program              *)

\* a load (funct3 0..6: LB, LH, LW, LD, LBU, LHU, LWU) rd = x3, base in x1
LOAD_x3_x1(f3, imm) == <<32768 + f3 * 4096 + 387, (imm % 4096) * 16, 0, 0>>

JALR_x1_x1(imm) == <<32999, (imm % 4096) * 16, 0, 0>>

JALR_x3_x1(imm) == <<33255, (imm % 4096) * 16, 0, 0>>

JAL_x3_8 == <<495, 128, 0, 0>>

JAL_x1_m4 == <<61679, 65503, 0, 0>>

\* AMO rd = x3, rs2 = x2, address in x1
AMO_x3_x2_x1(f3, f5) == <<33199 + f3 * 4096, f5 * 2048 + 32, 0, 0>>

LoadInsns ==
    {LOAD_x3_x1(f3, imm) : f3 \in 0..6, imm \in {0, 4}}

JumpInsns == {JALR_x1_x1(4), JALR_x3_x1(5), JALR_x3_x1(0 - 4), JAL_x3_8, JAL_x1_m4}

\* AMOADD.W, AMOSWAP.W, AMOOR.W, AMOAND.W, AMOADD.D, AMOSWAP.D
RmwInsns ==
    {AMO_x3_x2_x1(2, 0), AMO_x3_x2_x1(2, 1), AMO_x3_x2_x1(2, 8),
     AMO_x3_x2_x1(2, 12), AMO_x3_x2_x1(3, 0), AMO_x3_x2_x1(3, 1)}

\* the same with rd = x2 (= rs2) or rd = x1 (= rs1): AMOADD.W x2,x2,(x1),
\* AMOSWAP.W x1,x2,(x1), AMOADD.D x1,x2,(x1), AMOSWAP.D x2,x2,(x1)
AMO_rd_x2_x1(d, f3, f5) ==
    <<32815 + d * 128 + f3 * 4096, f5 * 2048 + 32, 0, 0>>

RmwSameRegInsns ==
    {AMO_rd_x2_x1(2, 2, 0), AMO_rd_x2_x1(1, 2, 1), AMO_rd_x2_x1(1, 3, 0),
     AMO_rd_x2_x1(2, 3, 1)}

\* LR.W, SC.W, LR.D, SC.D
ReservedInsns == {AMO_x3_x2_x1(f3, f5) : f3 \in {2, 3}, f5 \in {2, 3}}

HartInsns ==
    LoadInsns \cup JumpInsns \cup RmwInsns \cup RmwSameRegInsns \cup ReservedInsns

\* an instruction before or after a FENCE, and SC after the LR of its width
HartPrograms ==
    {<<i, FENCE>> : i \in HartInsns} \cup {<<FENCE, i>> : i \in HartInsns}
        \cup {<<AMO_x3_x2_x1(f3, 2), AMO_x3_x2_x1(f3, 3)>> : f3 \in {2, 3}}

\* the data behind the program: at 8 a doubleword whose bytes all have the
\* top bit set, at 16 one whose bytes all have it clear
HartData == <<<<33409, 33923, 0, 0>>, <<34437, 34951, 0, 0>>,
              <<8721, 17459, 0, 0>>, <<26197, 32631, 0, 0>>>>

\* x1: addresses aligned to 8, to 4, to 2, to nothing, and past the memory
HartAddrs == {U64(8), U64(9), U64(10), U64(12), U64(16), U64(20), U64(MEM_SIZE)}

\* x2: a positive doubleword and one whose low word is negative
HartOperands == {SampleWord, <<65535, 32768, 1, 0>>}

InitHart ==
    /\ InitRest
    /\ fin = NoInput
    /\ memKind \in {"monitor", "space"}
    /\ \E prog \in HartPrograms : image = MemoryImageNew(prog \o HartData)
    /\ snap = image
    /\ \E a \in HartAddrs, b \in HartOperands :
           registers = [HartNew.registers EXCEPT ![1] = a, ![2] = b]

SpecHart == InitHart /\ [][Next]_vars

-----------------------------------------------------------------------------
(* Program::load_elf. The parsed file is a record: the header fields, the    *)
(* program headers in table order, and the symbols with their resolved       *)
(* names; `input` is the sequence of the file's bytes, byte 0 first. The     *)
(* image is a function from the addresses inserted so far to 32-bit words.   *)

\* the symbol names matched by load_elf
PatchSet ==
    {"runtime.gcenable", "runtime.init.5", "runtime.main.func1",
     "runtime.deductSweepCredit", "runtime.(*gcControllerState).commit",
     "github.com/prometheus/client_golang/prometheus.init",
     "github.com/prometheus/client_golang/prometheus.init.0",
     "github.com/prometheus/procfs.init",
     "github.com/prometheus/common/model.init",
     "github.com/prometheus/client_model/go.init",
     "github.com/prometheus/client_model/go.init.0",
     "github.com/prometheus/client_model/go.init.1",
     "flag.init", "runtime.fastexprand", "runtime.getRandomData",
     "runtime.initsig", "runtime.check", "runtime.doInit"}

\* 0x00008067, `ret`
PatchWord == <<32871, 0, 0, 0>>

\* BTreeMap::insert
Insert(img, key, word) ==
    [x \in (DOMAIN img) \cup {key} |-> IF x = key THEN word ELSE img[x]]

\* a read of four bytes whatever the length asked for
ReadWord_FullWord(input, offset, len) ==
    LET Got(bs) == [some |-> \A j \in 1..4 : bs[j] >= 0,
                    word |-> FromLeBytes([j \in 1..4 |-> IF bs[j] >= 0 THEN bs[j] ELSE 0])]
        Get(o) == IF o[2] = 0 /\ o[3] = 0 /\ o[4] = 0 /\ o[1] < Len(input)
                  THEN input[o[1] + 1] ELSE 0 - 1
    IN  Got([j \in 1..4 |-> Get(Add64(offset, U64(j - 1)))])

\* the inner loop of load_elf: `len` bytes from `offset`, each through
\* input.get, or-ed into the word at bit 8 * j; none when a byte lies outside
\* the input
ReadWord(input, offset, len) ==
    LET Got(bs) == [some |-> \A j \in 1..len : bs[j] >= 0,
                    word |-> FromLeBytes([j \in 1..len |-> IF bs[j] >= 0 THEN bs[j] ELSE 0])]
        Get(o) == IF o[2] = 0 /\ o[3] = 0 /\ o[4] = 0 /\ o[1] < Len(input)
                  THEN input[o[1] + 1] ELSE 0 - 1
    IN  Got([j \in 1..len |-> Get(Add64(offset, U64(j - 1)))])

\* the result of a stage of load_elf: the image so far, or the error bailed with
Staged(img) == [err |-> "", image |-> img]

Bail(msg) == [err |-> msg, image |-> <<>>]

\* the loop `for i in (0..mem_size).step_by(4)` of one segment, from i on
\* (mem_size and file_size are below max_mem here)
RECURSIVE ProjectSegment(_, _, _, _)
ProjectSegment(img, input, segment, i) ==
    LET Read(addr, r) ==
            IF r.some THEN ProjectSegment(Insert(img, addr, r.word), input, segment, i + 4)
            ELSE Bail("Invalid segment offset")
        Min(x, y) == IF x < y THEN x ELSE y
        At(addr) ==
            CASE Less64(addr, segment.p_vaddr) -> Bail("Invalid segment vaddr")
              [] i >= segment.p_filesz[1] ->
                   ProjectSegment(Insert(img, addr, Zero64), input, segment, i + 4)
              [] OTHER ->
                   Read(addr, ReadWord(input, Add64(segment.p_offset, U64(i)),
                                       Min(segment.p_filesz[1] - i, 4)))
    IN  IF i >= segment.p_memsz[1] THEN Staged(img)
        ELSE At(Add64(segment.p_vaddr, U64(i)))

\* a segment whose mem_size is checked before its file_size
LoadSegment_MemFirst(img, input, segment, max_mem) ==
    CASE ~Less64(segment.p_memsz, max_mem) -> Bail("Invalid segment mem_size")
      [] ~Less64(segment.p_filesz, max_mem) -> Bail("Invalid segment file_size")
      [] OTHER -> ProjectSegment(img, input, segment, 0)

\* the body of `for segment in segments.iter().filter(PT_LOAD)`
LoadSegment(img, input, segment, max_mem) ==
    CASE ~Less64(segment.p_filesz, max_mem) -> Bail("Invalid segment file_size")
      [] ~Less64(segment.p_memsz, max_mem) -> Bail("Invalid segment mem_size")
      [] OTHER -> ProjectSegment(img, input, segment, 0)

\* the PT_LOAD segments from the k-th program header on, in table order
RECURSIVE LoadSegments(_, _, _, _, _)
LoadSegments(img, input, segments, max_mem, k) ==
    LET Then(r) == IF r.err # "" THEN r
                   ELSE LoadSegments(r.image, input, segments, max_mem, k + 1)
    IN  CASE k > Len(segments) -> Staged(img)
          [] segments[k].p_type # "PT_LOAD" ->
               LoadSegments(img, input, segments, max_mem, k + 1)
          [] OTHER -> Then(LoadSegment(img, input, segments[k], max_mem))

\* a patch loop that overwrites the entry of every symbol, whatever its name
RECURSIVE PatchSymbols_AnyName(_, _, _)
PatchSymbols_AnyName(img, symbols, k) ==
    CASE k > Len(symbols) -> [abort |-> FALSE, image |-> img]
      [] ~symbols[k].named -> [abort |-> TRUE, image |-> img]
      [] symbols[k].st_value \notin DOMAIN img -> [abort |-> TRUE, image |-> img]
      [] OTHER ->
           PatchSymbols_AnyName(Insert(img, symbols[k].st_value, PatchWord),
                                symbols, k + 1)

\* symtab.iter().for_each from the k-th symbol on: the name is unwrapped, and
\* for a name in the patch set image.get(st_value) is unwrapped before the
\* insert; [abort, image]
RECURSIVE PatchSymbols(_, _, _)
PatchSymbols(img, symbols, k) ==
    CASE k > Len(symbols) -> [abort |-> FALSE, image |-> img]
      [] ~symbols[k].named -> [abort |-> TRUE, image |-> img]
      [] symbols[k].name \notin PatchSet -> PatchSymbols(img, symbols, k + 1)
      [] symbols[k].st_value \notin DOMAIN img -> [abort |-> TRUE, image |-> img]
      [] OTHER ->
           PatchSymbols(Insert(img, symbols[k].st_value, PatchWord), symbols, k + 1)

\* Result<Program>: Ok(Program {entry, image}), Err(msg), or a panic; the
\* image before the patches is kept beside the result
ElfResult(kind, msg, entry, img, projected) ==
    [kind |-> kind, name |-> msg, val |-> entry, image |-> img,
     projected |-> projected]

ElfErr(msg) == ElfResult("err", msg, Zero64, <<>>, <<>>)

\* Program::load_elf
load_elf(input, elf, max_mem) ==
    LET Patched(projected, p) ==
            IF p.abort THEN ElfResult("abort", "", Zero64, <<>>, projected)
            ELSE ElfResult("ok", "", elf.e_entry, p.image, projected)
        Projected(r) ==
            CASE r.err # "" -> ElfErr(r.err)
              [] ~elf.has_symtab -> ElfResult("abort", "", Zero64, <<>>, r.image)
              [] OTHER -> Patched(r.image, PatchSymbols(r.image, elf.symbols, 1))
    IN  CASE ~elf.parsed -> ElfErr("parse")
          [] elf.class # "ELF64" -> ElfErr("Not a 64-bit ELF")
          [] elf.e_machine # "EM_RISCV" ->
               ElfErr("Invalid machine type, must be RISC-V")
          [] elf.e_type # "ET_EXEC" -> ElfErr("Invalid ELF type, must be executable")
          [] ~Less64(elf.e_entry, max_mem) \/ elf.e_entry[1] % 4 # 0 ->
               ElfErr("Invalid entrypoint")
          [] ~elf.has_segments -> ElfErr("Missing segment table")
          [] Len(elf.segments) > 256 -> ElfErr("Too many program headers")
          [] OTHER -> Projected(LoadSegments(<<>>, input, elf.segments, max_mem, 1))

\* the file bytes program headers point into
ElfInput == <<17, 34, 51, 68, 85, 102, 119, 136>>

ElfMaxMem == U64(16)

Segment(type, filesz, memsz, vaddr, offset) ==
    [p_type |-> type, p_filesz |-> filesz, p_memsz |-> memsz, p_vaddr |-> vaddr,
     p_offset |-> offset]

\* PT_LOAD segments: a partial tail word and a zero tail; one that overlaps
\* it; a file size above the memory size at an unaligned address; sizes at
\* max_mem; addresses that overflow; reads outside the file; and a segment of
\* another type
ElfSegments ==
    {Segment("PT_LOAD", U64(6), U64(12), Zero64, Zero64),
     Segment("PT_LOAD", U64(4), U64(4), U64(4), U64(2)),
     Segment("PT_LOAD", U64(8), U64(4), U64(2), Zero64),
     Segment("PT_LOAD", U64(16), U64(4), Zero64, Zero64),
     Segment("PT_LOAD", Zero64, U64(16), Zero64, Zero64),
     Segment("PT_LOAD", Max64, <<0, 0, 1, 0>>, Zero64, Zero64),
     Segment("PT_LOAD", U64(4), U64(8), Imm64(0 - 4), Zero64),
     Segment("PT_LOAD", U64(4), U64(8), Imm64(0 - 4), U64(8)),
     Segment("PT_LOAD", U64(4), U64(4), U64(8), U64(6)),
     Segment("PT_NOTE", Max64, Max64, Zero64, Zero64)}

\* program header tables: up to two of the segments, and 257 notes
ElfTables ==
    {<<>>} \cup {<<s>> : s \in ElfSegments}
           \cup {<<s, t>> : s \in ElfSegments, t \in ElfSegments}
           \cup {[k \in 1..257 |-> Segment("PT_NOTE", Zero64, Zero64, Zero64, Zero64)]}

Symbol(name, st_value) == [named |-> TRUE, name |-> name, st_value |-> st_value]

ElfSymbols ==
    {<<>>,
     <<Symbol("runtime.doInit", Zero64)>>,
     <<Symbol("runtime.doInit", U64(4)), Symbol("main.main", Zero64)>>,
     <<Symbol("main.main", U64(20))>>,
     <<Symbol("runtime.doInit", Zero64), Symbol("flag.init", U64(20))>>,
     <<Symbol("runtime.doInit2", U64(4)), Symbol("flag.init", U64(8))>>,
     <<[named |-> FALSE, name |-> "", st_value |-> Zero64]>>}

ElfEntries == {Zero64, U64(4), U64(6), U64(16), U64(20)}

Elf(parsed, class, machine, type, entry, has_segments, segments, has_symtab, symbols) ==
    [parsed |-> parsed, class |-> class, e_machine |-> machine, e_type |-> type,
     e_entry |-> entry, has_segments |-> has_segments, segments |-> segments,
     has_symtab |-> has_symtab, symbols |-> symbols]

\* files with a good header, and one file for each header check that fails
ElfFiles ==
    {Elf(TRUE, "ELF64", "EM_RISCV", "ET_EXEC", e, TRUE, t, TRUE, y) :
         e \in ElfEntries, t \in ElfTables, y \in ElfSymbols}
    \cup {Elf(TRUE, "ELF64", "EM_RISCV", "ET_EXEC", e, TRUE, t, FALSE, <<>>) :
              e \in {Zero64, U64(6)}, t \in ElfTables}
    \cup {Elf(p, c, m, t, e, s, <<>>, TRUE, <<>>) :
              p \in BOOLEAN, c \in {"ELF64", "ELF32"}, m \in {"EM_RISCV", "EM_X86_64"},
              t \in {"ET_EXEC", "ET_DYN"}, e \in {Zero64, U64(6)}, s \in BOOLEAN}

InitElf ==
    /\ InitFn
    /\ \E e \in ElfFiles :
           fin = [op |-> "load_elf", elf |-> e, input |-> ElfInput,
                  max_mem |-> ElfMaxMem]

ApplyLoadElf ==
    /\ fin.op = "load_elf"
    /\ fout = NoOutput
    /\ \E r \in {load_elf(fin.input, fin.elf, fin.max_mem)} : fout' = r
    /\ UNCHANGED <<hartVars, status, steps>>
    /\ FnUnchanged

NextElf == ApplyLoadElf

SpecElf == InitElf /\ [][NextElf]_vars

-----------------------------------------------------------------------------
(* MemoryImage::new on its own: fin is the program, fout the memory built *)

\* keys of program.image: the first words, the last word of the primary
\* region, the first address past it, and the base of the playground
ImageKeys ==
    <<Zero64, U64(4), U64(8), U64(MEM_SIZE - 4), U64(MEM_SIZE), PlaygroundBase>>

ImageWords == {<<513, 1027, 0, 0>>, <<65535, 65535, 0, 0>>, <<32871, 0, 0, 0>>}

\* images of one or two entries, in key order
ProgramImages ==
    {<<<<ImageKeys[a], v>>>> : a \in DOMAIN ImageKeys, v \in ImageWords}
        \cup {<<<<ImageKeys[p[1]], v>>, <<ImageKeys[p[2]], w>>>> :
                  p \in {q \in (DOMAIN ImageKeys) \X (DOMAIN ImageKeys) :
                             q[1] < q[2]},
                  v \in ImageWords, w \in ImageWords}

InitImage ==
    /\ InitFn
    /\ \E entries \in ProgramImages :
           fin = [op |-> "new", entry |-> Zero64, image |-> entries]

ApplyNew ==
    /\ fin.op = "new"
    /\ fout = NoOutput
    /\ \E m \in {MemoryImageFrom(fin.image)} :
           fout' = [kind |-> "ok", val |-> Zero64, name |-> "MemoryImage",
                    memory_space |-> m]
    /\ UNCHANGED <<hartVars, status, steps>>
    /\ FnUnchanged

NextImage == ApplyNew

SpecImage == InitImage /\ [][NextImage]_vars

-----------------------------------------------------------------------------
(* Properties of the monitor *)

\* the bytes a store call issues, in address order from call.addr
CallBytes(call) ==
    IF call.op = "slice" THEN call.slice ELSE ToLeBytes(call.data, call.n)

\* the byte values the calls cs wrote to address x
WrittenAt(cs, x) ==
    UNION {{CallBytes(cs[k])[i] :
                i \in {j \in 1..cs[k].n : Add64(cs[k].addr, U64(j - 1)) = x}} :
           k \in 1..Len(cs)}

\* the byte the last of the calls cs that wrote address x wrote to it
LastWrittenAt(cs, x) ==
    LET hits(k) == {i \in 1..cs[k].n : Add64(cs[k].addr, U64(i - 1)) = x}
        ks == {k \in 1..Len(cs) : hits(k) # {}}
        k == CHOOSE j \in ks : \A m \in ks : m <= j
        i == CHOOSE j \in hits(k) : \A m \in hits(k) : m <= j
    IN  CallBytes(cs[k])[i]

\* the addresses the calls cs wrote
AddrsOf(cs) ==
    UNION {{Add64(cs[k].addr, U64(i - 1)) : i \in 1..cs[k].n} : k \in 1..Len(cs)}

\* the value a load of n bytes at addr returns on the image img
LoadOn(img, addr, n) == IF n = 1 THEN LoadU8(img, addr).val ELSE LoadUN(img, addr, n).val

\* C1: a store is invisible to every load until commit (a load returns what
\* the image held after the previous commit, and the image itself is not
\* touched by a store), and a load after the commit returns the written byte
\* at every address in a region that the committed calls wrote one value to.
C1_InvisibleUntilCommit ==
    /\ image = snap
    /\ ret.n > 0 => ret.val = LoadOn(snap, ret.addr, ret.n)
    /\ (ret.n > 0 /\ ncommits > 0) =>
          \A i \in 1..ret.n :
              LET x == Add64(ret.addr, U64(i - 1))
                  W == WrittenAt(applied, x)
              IN  (Cardinality(W) = 1 /\ CellOf(x) # NoCell)
                      => ToLeBytes(ret.val, ret.n)[i] \in W

\* store_u8(A0, 1); save_op; commit; store_u8(A0, 5); load_u8(A0) returns 1:
\* the committed byte is visible, the pending one is not
C1_Witness ==
    /\ status = "running"
    /\ ncommits = 1
    /\ applied = <<Call("int", A0, U64(1), <<>>, 1)>>
    /\ calls = <<Call("int", A0, U64(5), <<>>, 1)>>
    /\ MemStore(A0, 5) \in pending_writes
    /\ ret = [addr |-> A0, n |-> 1, val |-> U64(1)]

\* C2: after a commit every address in a region holds the byte of the write
\* that was issued last to it since the previous commit (last-write-wins).
C2_LastWriteWins ==
    (status = "running" /\ ncommits > 0) =>
        \A x \in AddrsOf(applied) :
            CellOf(x) # NoCell => image[CellOf(x)] = LastWrittenAt(applied, x)

\* C3 as stated: after store_u64(a, v); commit, load_u64(a) returns v, and
\* after store_region(a, bytes); commit, load_u8(a + i) returns bytes[i] for
\* every index i of the slice.
C3_RoundTripEveryIndex ==
    (status = "running" /\ ncommits > 0 /\ Len(applied) = 1) =>
        LET call == applied[1]
        IN  /\ (call.op = "int" /\ call.n = 8 /\ ret.n = 8 /\ ret.addr = call.addr)
                   => ret.val = call.data
            /\ call.op = "slice" =>
                   \A i \in 1..Len(call.slice) :
                       LoadU8(image, Add64(call.addr, U64(i - 1)))
                           = [panic |-> FALSE, val |-> U64(call.slice[i])]

\* C3, amended: the same, for every index i such that a + i lies in a
\* region (a byte of the slice that falls outside every region is dropped by
\* commit, and load_u8 of its address does not return).
C3_RoundTripInRegion ==
    (status = "running" /\ ncommits > 0 /\ Len(applied) = 1) =>
        LET call == applied[1]
        IN  /\ (call.op = "int" /\ call.n = 8 /\ ret.n = 8 /\ ret.addr = call.addr)
                   => ret.val = call.data
            /\ call.op = "slice" =>
                   \A i \in 1..Len(call.slice) :
                       LET x == Add64(call.addr, U64(i - 1))
                       IN  CellOf(x) # NoCell =>
                               LoadU8(image, x) = [panic |-> FALSE,
                                                   val |-> U64(call.slice[i])]

\* store_region(MEM_SIZE - 8, nine bytes); commit: the first eight bytes are
\* in the primary region and read back, the ninth lies in no region
C3_Witness ==
    /\ status = "running"
    /\ ncommits = 1
    /\ applied = <<Call("slice", AEnd, Zero64, SampleSlice, Len(SampleSlice))>>
    /\ LoadU8(image, Add64(AEnd, U64(7))) = [panic |-> FALSE, val |-> U64(SampleSlice[8])]
    /\ CellOf(Add64(AEnd, U64(8))) = NoCell

-----------------------------------------------------------------------------
(* Properties of the executor *)

LoadOps == {"lb", "lbu", "lh", "lhu", "lw", "lwu", "ld"}

StoreOps == {"sb", "sh", "sw", "sd"}

BranchOps == {"beq", "bne", "blt", "bltu", "bge", "bgeu"}

\* the instructions whose handler checks the alignment of the address
AlignChecked == LoadOps \cup StoreOps \cup {"amolrw", "amolrd", "amoscw", "amoscd"}

\* the effective address of a memory instruction started with registers regs
EffAddr(regs, insn) ==
    CASE OpName(insn) \in LoadOps ->
           Add64(read_register(regs, rs1(insn)), Imm64(imm_i(insn)))
      [] OpName(insn) \in StoreOps ->
           Add64(read_register(regs, rs1(insn)), Imm64(imm_s(insn)))
      [] OTHER -> read_register(regs, rs1(insn))

\* the access size of a memory instruction
AccessSize(insn) ==
    CASE OpName(insn) \in LoadOps -> LoadSize(OpName(insn))
      [] OpName(insn) \in StoreOps -> StoreSize(OpName(insn))
      [] OpName(insn) \in {"amolrw", "amoscw"} -> "Word"
      [] OTHER -> "DoubleWord"

\* the PC a successful step must leave, from the word it executed and the
\* state it started in
ExpectedPc(p, regs, insn) ==
    CASE OpName(insn) = "jal" -> Add64(p, Imm64(imm_j(insn)))
      [] OpName(insn) = "jalr" ->
           LET Even(t) == <<t[1] - (t[1] % 2), t[2], t[3], t[4]>>
           IN  Even(Add64(read_register(regs, rs1(insn)), Imm64(imm_i(insn))))
      [] OpName(insn) \in BranchOps
           /\ BranchFn(OpName(insn), read_register(regs, rs1(insn)),
                       read_register(regs, rs2(insn))) ->
           Add64(p, Imm64(imm_b(insn)))
      [] OTHER -> Add64(p, U64(4))

\* C4: over the monitor no write stays pending between two steps, and the
\* word a step fetches holds, at every byte the step before wrote, the byte
\* that step wrote: the writes of step n are committed before the fetch of
\* step n+1, which executes the newly written word.
C4_CommittedBeforeFetch ==
    /\ (memKind = "monitor" /\ status = "running") => pending_writes = {}
    /\ (memKind = "monitor" /\ last.fetched) =>
          \A w \in prevWrites : \A i \in 1..4 :
              w.addr = Add64(last.pc0, U64(i - 1))
                  => ToLeBytes(last.insn, 4)[i] = w.data

\* SB x0,6(x0) at 0 clears the third byte of ADDI x1,x0,261 at 4: the next
\* step fetches ADDI x1,x0,256 and executes it
C4_Witness ==
    /\ memKind = "monitor"
    /\ steps = 2
    /\ MemStore(U64(6), 0) \in prevWrites
    /\ last.kind = "ok"
    /\ last.pc0 = U64(4)
    /\ last.insn = <<147, 4096, 0, 0>>
    /\ registers[1] = U64(256)

\* C5: after a successful step started at PC = p the PC is the target of the
\* handler when the handler wrote the PC (JAL, JALR, a taken branch) and
\* p + 4 otherwise, never the target plus 4.
C5_PcAfterStep ==
    last.kind = "ok" => pc = ExpectedPc(last.pc0, last.regs0, last.insn)

\* JAL x1,8 at 0 leaves PC = 8 (not 12) and x1 = 4
C5_Witness ==
    /\ last.kind = "ok"
    /\ last.insn = JAL_x1_8
    /\ last.pc0 = Zero64
    /\ pc = U64(8)
    /\ registers[1] = U64(4)

\* C6: over the monitor a fetch at a PC in no region makes the step return
\* FetchError(pc), and an aligned data load at an address in no region makes
\* it return LoadAccessFault(addr); the step returns and does not panic.
C6_ReadFaultIsError ==
    (memKind = "monitor" /\ last.kind # "none") =>
        /\ CellOf(last.pc0) = NoCell =>
               /\ last.kind = "err"
               /\ last.err = Exception("FetchError", last.pc0, Zero64)
        /\ (/\ last.fetched
            /\ OpName(last.insn) \in LoadOps
            /\ ~Misaligned(EffAddr(last.regs0, last.insn), AccessSize(last.insn))
            /\ CellOf(EffAddr(last.regs0, last.insn)) = NoCell) =>
               /\ last.kind = "err"
               /\ last.err = Exception("LoadAccessFault",
                                       EffAddr(last.regs0, last.insn), Zero64)

\* C7: a fetched word that decodes to no instruction makes the step return
\* IllegalInstruction(p, insn) with the PC p it was fetched at and the word
\* itself, and the PC still equals p after the step; no other word does.
C7_IllegalInstruction ==
    /\ (last.fetched /\ OpName(last.insn) = "none") =>
          /\ last.kind = "err"
          /\ last.err = Exception("IllegalInstruction", last.pc0, last.insn)
          /\ pc = last.pc0
    /\ last.err.name = "IllegalInstruction" =>
          /\ last.fetched
          /\ OpName(last.insn) = "none"
          /\ pc = last.pc0

\* FENCE at 0, then the word 0xffffffff at 4
C7_Witness ==
    /\ steps = 2
    /\ status = "error"
    /\ last.err = Exception("IllegalInstruction", U64(4), ILLEGAL)
    /\ pc = U64(4)

\* C8: when a step returns an error, the 32 registers and the PC are what
\* they were before the step, and the step issued no memory write (nothing
\* is pending and the image is unchanged).
C8_ErrorLeavesState ==
    last.kind = "err" =>
        /\ registers = last.regs0
        /\ pc = last.pc0
        /\ last.writes = {}
        /\ pending_writes = {}
        /\ image = snap

\* LW x1,1(x0) returns AlignmentFault(1) and x1 is still 0
C8_Witness ==
    /\ status = "error"
    /\ last.insn = LW_x1_1_x0
    /\ last.err = Exception("AlignmentFault", U64(1), Zero64)
    /\ registers[1] = Zero64
    /\ pc = last.pc0

\* C9: a load, store, LR or SC whose effective address is not a multiple of
\* its size makes the step return AlignmentFault(addr), also when the address
\* lies in no region (the check comes before the memory access), and leaves
\* no pending write, the image and the registers as they were.
C9_MisalignedFaults ==
    (/\ last.fetched
     /\ OpName(last.insn) \in AlignChecked
     /\ Misaligned(EffAddr(last.regs0, last.insn), AccessSize(last.insn))) =>
        /\ last.kind = "err"
        /\ last.err = Exception("AlignmentFault", EffAddr(last.regs0, last.insn),
                                Zero64)
        /\ last.writes = {}
        /\ pending_writes = {}
        /\ image = snap
        /\ registers = last.regs0

\* LH x3,-3(x0) over the monitor: the address 0xfffffffffffffffd is odd and
\* in no region, and the step returns AlignmentFault of it
C9_Witness ==
    /\ memKind = "monitor"
    /\ status = "error"
    /\ last.insn = LH_x3_m3_x0
    /\ last.err = Exception("AlignmentFault", Imm64(0 - 3), Zero64)

\* C10: register 0 holds zero and reads as zero in every reachable state, and
\* a successful step of an instruction whose rd is x0 leaves the registers
\* unchanged and last_register_write None.
C10_RegisterZero ==
    /\ registers[0] = Zero64
    /\ read_register(registers, 0) = Zero64
    /\ (last.kind = "ok" /\ rd(last.insn) = 0) =>
          /\ registers = last.regs0
          /\ last_register_write = None

\* ADDI x0,x0,1 executed: x0 is still 0 and no register write is recorded
C10_Witness ==
    /\ last.kind = "ok"
    /\ last.insn = ADDI_x0_x0_1
    /\ registers[0] = Zero64
    /\ last_register_write = None

\* C16: starting from a word-aligned entry PC, the PC is a multiple of 4 at
\* every instruction boundary: before every fetch and after every successful
\* step, JAL, JALR and taken branches included.
C16_PcWordAligned ==
    status = "running" => pc[1] % 4 = 0

-----------------------------------------------------------------------------
(* Properties of the register file and of the session calls *)

\* the pending byte writes of a doubleword v stored at addr
DoubleWordWrites(addr, v) ==
    {MemStore(Add64(addr, U64(i - 1)), ToLeBytes(v, 8)[i]) : i \in 1..8}

\* C11: the first load_register(2) stores STACK_INITIAL_ADDRESS into the x2
\* slot and returns it only if the x2 slot holds zero; if the slot already
\* holds a committed non-zero value, that first read returns the stored value
\* and issues no write.
C11_BootstrapOnlyIfZero ==
    (/\ before.op = "load_register"
     /\ before.idx = 2
     /\ ~before.x2read
     /\ status = "running") =>
        LET Slot(v) ==
                IF v = Zero64
                THEN /\ before.val = U64(STACK_INITIAL_ADDRESS)
                     /\ pending_writes = before.pending
                            \cup DoubleWordWrites(get_register_addr(2),
                                                  U64(STACK_INITIAL_ADDRESS))
                ELSE /\ before.val = v
                     /\ pending_writes = before.pending
        IN  Slot(LoadUN(before.image, get_register_addr(2), 8).val)

\* C12: store_register(2, 0) issues the pending doubleword write of
\* STACK_INITIAL_ADDRESS to the x2 slot, and store_register(idx, data) for
\* every other (idx, data) issues the pending doubleword write of exactly
\* data to SYSTEM.start + 8 * idx; the image is not touched.
C12_StoreRegister ==
    before.op = "store_register" =>
        /\ status = "running"
        /\ image = before.image
        /\ pending_writes = before.pending
               \cup DoubleWordWrites(U64(SYSTEM_START + 8 * before.idx),
                                     IF before.idx = 2 /\ before.data = Zero64
                                     THEN U64(STACK_INITIAL_ADDRESS)
                                     ELSE before.data)

\* store_register(2, 0) made: the low bytes 0x20, 0x12 of STACK_INITIAL_ADDRESS
\* are pending for the x2 slot, and no zero is pending for its first byte
C12_Witness ==
    /\ before.op = "store_register"
    /\ before.idx = 2
    /\ before.data = Zero64
    /\ before.pending = {}
    /\ MemStore(U64(SYSTEM_START + 16), STACK_INITIAL_ADDRESS % 256) \in pending_writes
    /\ MemStore(U64(SYSTEM_START + 17), STACK_INITIAL_ADDRESS \div 256) \in pending_writes
    /\ MemStore(U64(SYSTEM_START + 16), 0) \notin pending_writes

\* C13: a commit panics exactly when no save_op was made since the previous
\* commit: it panics when op_result is None, never when save_op was called,
\* and it leaves op_result None, so that a second commit needs its own save_op.
C13_CommitNeedsSaveOp ==
    before.op = "commit" =>
        /\ (status = "panicked") = (~before.op_result.some)
        /\ op_result = NoOpResult

\* save_op; commit; commit: the first commit returns, the second panics
C13_Witness ==
    /\ before.op = "commit"
    /\ ncommits = 2
    /\ before.syscalls # <<>>
    /\ ~before.op_result.some
    /\ status = "panicked"

\* C14: clear_segment empties the syscall list and leaves the pending writes,
\* the buffered op result and the image unchanged; clear_session empties the
\* syscall list and the pending writes and leaves the image unchanged; a
\* write dropped by clear_session never reaches the image in a later commit.
C14_ClearFrames ==
    /\ before.op = "clear_segment" =>
          /\ syscalls = <<>>
          /\ pending_writes = before.pending
          /\ op_result = before.op_result
          /\ image = before.image
    /\ before.op = "clear_session" =>
          /\ syscalls = <<>>
          /\ pending_writes = {}
          /\ image = before.image
    /\ before.op = "commit" =>
          \A w \in before.dropped :
              (CellOf(w.addr) # NoCell /\ \A v \in before.pending : v.addr # w.addr)
                  => image[CellOf(w.addr)] = before.image[CellOf(w.addr)]

\* after a commit that recorded a syscall and a store that is still pending,
\* clear_session leaves neither
C14_Witness ==
    /\ before.op = "clear_session"
    /\ before.syscalls # <<>>
    /\ before.pending # {}
    /\ syscalls = <<>>
    /\ pending_writes = {}

\* C15: a write to an address in no region does not fail: the executor's
\* store over the monitor succeeds (no StoreAccessFault), a commit with a
\* saved op completes, every pending write to an address in a region is
\* applied, and every other byte of the regions is unchanged.
C15_OutOfRegionWrite ==
    /\ before.op = "write_mem" =>
          /\ before.ok
          /\ status = "running"
          /\ MemStore(before.addr, before.data[1]) \in pending_writes
    /\ (before.op = "commit" /\ before.op_result.some) =>
          /\ status = "running"
          /\ \A c \in Cells :
                 LET W == {w \in before.pending : CellOf(w.addr) = c}
                 IN  IF W = {} THEN image[c] = before.image[c]
                     ELSE image[c] \in {w.data : w \in W}

\* a byte for MEM_SIZE (in no region) and a byte for the playground base are
\* committed together: the commit returns and the playground byte is written
C15_Witness ==
    /\ before.op = "commit"
    /\ status = "running"
    /\ MemStore(AOut, 3) \in before.pending
    /\ MemStore(PlaygroundBase, 3) \in before.pending
    /\ before.image[CellOf(PlaygroundBase)] = 0
    /\ image[CellOf(PlaygroundBase)] = 3

\* C28: through the monitor's register path x0 stays zero: whatever was
\* stored with store_register(0, v) and committed, load_register(0) returns 0.
C28_X0StaysZero ==
    (before.op = "load_register" /\ before.idx = 0 /\ status = "running") =>
        before.val = Zero64

\* C29: the x2 bootstrap is applied exactly once per session: the first
\* load_register(2) of a session, the one after clear_session included, made
\* while the x2 slot is zero issues the bootstrap write and returns
\* STACK_INITIAL_ADDRESS; every later load_register(2) of that session issues
\* no write and returns the committed content of the x2 slot.
C29_BootstrapOncePerSession ==
    (before.op = "load_register" /\ before.idx = 2 /\ status = "running") =>
        LET Slot(v) ==
                IF before.x2session
                THEN /\ before.val = v
                     /\ pending_writes = before.pending
                ELSE v = Zero64 =>
                         /\ before.val = U64(STACK_INITIAL_ADDRESS)
                         /\ pending_writes = before.pending
                                \cup DoubleWordWrites(get_register_addr(2),
                                                      U64(STACK_INITIAL_ADDRESS))
        IN  Slot(LoadUN(before.image, get_register_addr(2), 8).val)

\* C30: a commit that returns appends the saved op result's syscall record
\* to the end of the syscall list if and only if the op result carries one,
\* and leaves no pending write and no buffered op result; a call other than
\* commit, clear_segment and clear_session leaves the syscall list as it was,
\* so that between two clears the list only grows, by at most one record per
\* commit, in commit order.
C30_CommitAppendsSyscall ==
    /\ (before.op = "commit" /\ status = "running") =>
          /\ syscalls = IF before.op_result.syscall # 0
                        THEN before.syscalls \o <<before.op_result.syscall>>
                        ELSE before.syscalls
          /\ pending_writes = {}
          /\ op_result = NoOpResult
    /\ before.op \notin {"none", "commit", "clear_segment", "clear_session"} =>
          syscalls = before.syscalls

\* save_op(7), commit, save_op(9), commit: the list is 7, then 9
C30_Witness ==
    /\ before.op = "commit"
    /\ status = "running"
    /\ before.syscalls = <<7>>
    /\ before.op_result = SomeOpResult(9)
    /\ syscalls = <<7, 9>>

-----------------------------------------------------------------------------
(* Properties of OpCode::decode *)

\* C17: OpCode::decode is total over 32-bit words: it never aborts; a word
\* with an unknown 7-bit opcode, or with a known opcode and a combination of
\* funct3, funct7, funct5 and rs2 that no row lists, yields the error
\* "Illegal opcode", and every other word yields an OpCode.
C17_DecodeTotal ==
    (fin.op = "decode" /\ fout # NoOutput) =>
        /\ fout.kind \in {"ok", "err"}
        /\ fout.kind = "err" => fout.name = "Illegal opcode"
        /\ opcode(fin.insn) \notin DecodeOpcodes \ {0, 127} => fout.kind = "err"

-----------------------------------------------------------------------------
(* Properties of the multiply and divide instructions *)

\* the program has run to its end
AluDone == fin.op = "alu" /\ status = "running" /\ steps = Len(fin.prog)

\* C18: division by zero follows the table: for every dividend a, DIV(a, 0)
\* = DIVU(a, 0) = 2^64 - 1, REM(a, 0) = REMU(a, 0) = a and REMUW(a, 0) is the
\* low 32 bits of a zero extended; and no divide instruction, whatever its
\* operands, returns an error or traps.
C18_DivisionByZero ==
    /\ (AluDone /\ fin.b = Zero64) =>
          /\ fin.prog \in {<<DIV_x3_x1_x2, REM_x4_x1_x2>>,
                           <<DIVU_x3_x1_x2, REMU_x4_x1_x2>>}
                => registers[3] = Max64 /\ registers[4] = fin.a
          /\ fin.prog = <<REMUW_x3_x1_x2>> => registers[3] = Truncate(fin.a, 32)
    /\ (fin.op = "alu" /\ fin.prog \in DivPrograms) => status = "running"

\* C19: for every a and every b # 0, DIVU(a, b) * b + REMU(a, b) = a and
\* DIV(a, b) * b + REM(a, b) = a in 64-bit wrap-around arithmetic, the
\* overflow case a = -2^63, b = -1 included.
C19_DivRemIdentity ==
    (/\ AluDone
     /\ fin.b # Zero64
     /\ fin.prog \in {<<DIV_x3_x1_x2, REM_x4_x1_x2>>,
                      <<DIVU_x3_x1_x2, REMU_x4_x1_x2>>}) =>
        Add64(Mul64(registers[3], fin.b), registers[4]) = fin.a

\* DIV and REM of -2^63 by -1: the quotient wraps to -2^63, the remainder is 0
C19_Witness ==
    /\ AluDone
    /\ fin.prog = <<DIV_x3_x1_x2, REM_x4_x1_x2>>
    /\ fin.a = MinI64
    /\ fin.b = Max64
    /\ registers[3] = MinI64
    /\ registers[4] = Zero64

\* C20: ADDIW, MULW and REMUW write to rd a value whose high 32 bits all
\* equal bit 31 of its low 32 bits, for all operand values.
C20_WResultSignExtended ==
    (AluDone /\ OpName(fin.insn) \in {"addiw", "mulw", "remuw"}) =>
        registers[3] = SignExtend(Truncate(registers[3], 32), 32)

-----------------------------------------------------------------------------
(* Properties of single instructions *)

\* the n bytes at addr of the image, least significant first, extended to 8
\* bytes with the top bit of the last byte (signed) or with zero
LoadedValue(img, addr, n, signed) ==
    LET Fill(top) == IF signed /\ top >= 128 THEN 255 ELSE 0
        Bytes(bs) == FromLeBytes([k \in 1..8 |-> IF k <= n THEN bs[k] ELSE Fill(bs[n])])
    IN  Bytes([k \in 1..n |-> img[CellOf(Add64(addr, U64(k - 1)))]])

C22_JumpAndLink ==
    (last.fetched /\ OpName(last.insn) \in {"jal", "jalr"}) =>
        /\ last.kind = "ok"
        /\ pc = ExpectedPc(last.pc0, last.regs0, last.insn)
        /\ \A r \in 1..31 :
               registers[r] = IF r = rd(last.insn) THEN Add64(last.pc0, U64(4))
                              ELSE last.regs0[r]

\* JALR x1,4(x1) at PC 4 with x1 = 8: the PC becomes 12 (not 8 + 4 + 4) and
\* x1 becomes 8
C22_Witness ==
    /\ last.kind = "ok"
    /\ last.insn = JALR_x1_x1(4)
    /\ last.pc0 = U64(4)
    /\ last.regs0[1] = U64(8)
    /\ pc = U64(12)
    /\ registers[1] = U64(8)

\* the read-modify-write atomics
RmwOps == {"amoswapw", "amoaddw", "amoorw", "amoandw", "amoaddd", "amoswapd"}

RmwSize(insn) == IF OpName(insn) \in {"amoaddd", "amoswapd"} THEN "DoubleWord" ELSE "Word"

\* C27: a read-modify-write atomic whose address in rs1 is not a multiple of
\* its access size makes the step return AlignmentFault(addr), with no
\* register write and no memory write.
C27_RmwMisalignedFaults ==
    (/\ last.fetched
     /\ OpName(last.insn) \in RmwOps
     /\ Misaligned(read_register(last.regs0, rs1(last.insn)), RmwSize(last.insn))) =>
        /\ last.kind = "err"
        /\ last.err = Exception("AlignmentFault",
                                read_register(last.regs0, rs1(last.insn)), Zero64)
        /\ registers = last.regs0
        /\ last.writes = {}
        /\ image = snap

\* byte k (0..7) of a doubleword, least significant first
ByteOf(v, k) == (v[(k \div 2) + 1] \div (IF k % 2 = 0 THEN 1 ELSE 256)) % 256

\* the access width in bytes of an atomic: funct3 = 3 is the doubleword form
AtomicBytes(insn) == IF funct3(insn) = 3 THEN 8 ELSE 4

\* the address an atomic takes from rs1
AtomicAddr(regs, insn) == read_register(regs, rs1(insn))

\* the cells of img, with the n low bytes of v at addr
WithBytes(img, addr, n, v) ==
    [c \in DOMAIN img |->
        IF \E k \in 0..(n - 1) : c = CellOf(Add64(addr, U64(k)))
        THEN ByteOf(v, CHOOSE k \in 0..(n - 1) : c = CellOf(Add64(addr, U64(k))))
        ELSE img[c]]

RmwOld(img, regs, insn) ==
    LoadedValue(img, AtomicAddr(regs, insn), AtomicBytes(insn), TRUE)

RmwOperand(regs, insn) ==
    IF AtomicBytes(insn) = 4 THEN SignExtend(read_register(regs, rs2(insn)), 32)
    ELSE read_register(regs, rs2(insn))

\* bit i of what the atomic stores, from the bits of its operands
RmwBit(op, a, b, i) ==
    CASE op \in {"amoswapw", "amoswapd"} -> Bit(b, i)
      [] op \in {"amoaddw", "amoaddd"} -> Bit(Add64(a, b), i)
      [] op = "amoorw" -> IF Bit(a, i) = 1 \/ Bit(b, i) = 1 THEN 1 ELSE 0
      [] op = "amoandw" -> IF Bit(a, i) = 1 /\ Bit(b, i) = 1 THEN 1 ELSE 0

\* C33: AMO*.W reads the word at the address in rs1, writes that old word
\* sign-extended to 64 bits to rd, and stores the low word of
\* op(old word sign-extended, low word of rs2 sign-extended) at the same
\* address (op: the second operand for SWAP, wrapping add for ADD, bitwise
\* or and and for OR and AND); AMO*.D does the same with the 64-bit operands
\* at doubleword size.  The value read is the memory before the instruction,
\* and rs1 and rs2 are read before rd is written.
C33_RmwSemantics ==
    (/\ last.fetched
     /\ OpName(last.insn) \in RmwOps
     /\ AccessInRegion(AtomicAddr(last.regs0, last.insn), AtomicBytes(last.insn))
     /\ \/ AtomicAddr(last.regs0, last.insn)[1] % AtomicBytes(last.insn) = 0
        \/ memKind = "space") =>
        /\ last.kind = "ok"
        /\ \A r \in 1..31 :
               registers[r] = IF r = rd(last.insn)
                              THEN RmwOld(snap, last.regs0, last.insn)
                              ELSE last.regs0[r]
        /\ \A i \in 0..(8 * AtomicBytes(last.insn) - 1) :
               Bit(LoadedValue(image, AtomicAddr(last.regs0, last.insn),
                               AtomicBytes(last.insn), FALSE), i) =
                   RmwBit(OpName(last.insn), RmwOld(snap, last.regs0, last.insn),
                          RmwOperand(last.regs0, last.insn), i)
        /\ \A c \in DOMAIN image :
               (\A k \in 0..(AtomicBytes(last.insn) - 1) :
                    c # CellOf(Add64(AtomicAddr(last.regs0, last.insn), U64(k)))) =>
                   image[c] = snap[c]

\* AMOADD.W x2,x2,(x1) with x1 = 12 and x2 = 0x000000018000ffff over the
\* monitor: the word 0x88878685 at 12 becomes 0x08888684 and x2, which is
\* both rs2 and rd, becomes 0xffffffff88878685
C33_Witness ==
    /\ memKind = "monitor"
    /\ last.kind = "ok"
    /\ last.insn = AMO_rd_x2_x1(2, 2, 0)
    /\ last.regs0[1] = U64(12)
    /\ last.regs0[2] = <<65535, 32768, 1, 0>>
    /\ registers[2] = <<34437, 34951, Limb - 1, Limb - 1>>
    /\ LoadedValue(image, U64(12), 4, FALSE) = <<34436, 2184, 0, 0>>

-----------------------------------------------------------------------------
(* Properties of Program::load_elf *)

\* the header checks pass and the segment table is present
HeaderOk(elf) ==
    /\ elf.parsed
    /\ elf.class = "ELF64"
    /\ elf.e_machine = "EM_RISCV"
    /\ elf.e_type = "ET_EXEC"
    /\ elf.has_segments

\* the offsets i = 0, 4, 8, ... below p_memsz
Walk(seg) == {i \in 0..(seg.p_memsz[1] - 1) : i % 4 = 0}

\* the number of file bytes of the word at offset i
WordLen(seg, i) == IF seg.p_filesz[1] - i < 4 THEN seg.p_filesz[1] - i ELSE 4

Walked(seg, max_mem) ==
    /\ seg.p_type = "PT_LOAD"
    /\ Less64(seg.p_filesz, max_mem)
    /\ Less64(seg.p_memsz, max_mem)

\* p_vaddr + i overflows 64 bits
Overflows(seg, i) == Less64(Add64(seg.p_vaddr, U64(i)), seg.p_vaddr)

\* the word at offset i needs a file byte outside the input
ReadsOutside(input, seg, i) ==
    /\ i < seg.p_filesz[1]
    /\ \E j \in 0..(WordLen(seg, i) - 1) :
           ~Less64(Add64(seg.p_offset, U64(i + j)), U64(Len(input)))

\* the error of the first check a PT_LOAD segment fails, "" when it fails none
SegmentFailure(input, seg, max_mem) ==
    LET Bad == {i \in Walk(seg) : Overflows(seg, i) \/ ReadsOutside(input, seg, i)}
        First == CHOOSE i \in Bad : \A j \in Bad : i <= j
    IN  CASE seg.p_type # "PT_LOAD" -> ""
          [] ~Less64(seg.p_filesz, max_mem) -> "Invalid segment file_size"
          [] ~Less64(seg.p_memsz, max_mem) -> "Invalid segment mem_size"
          [] Bad = {} -> ""
          [] Overflows(seg, First) -> "Invalid segment vaddr"
          [] OTHER -> "Invalid segment offset"

\* the error of the first check a file with a good header fails
FirstFailure(input, elf, max_mem) ==
    LET Failing == {k \in 1..Len(elf.segments) :
                        SegmentFailure(input, elf.segments[k], max_mem) # ""}
        First == CHOOSE k \in Failing : \A j \in Failing : k <= j
    IN  CASE ~Less64(elf.e_entry, max_mem) \/ elf.e_entry[1] % 4 # 0 ->
               "Invalid entrypoint"
          [] Len(elf.segments) > 256 -> "Too many program headers"
          [] Failing = {} -> ""
          [] OTHER -> SegmentFailure(input, elf.segments[First], max_mem)

\* one of the failures C23 lists
ListedFailure(elf, max_mem) ==
    \/ ~Less64(elf.e_entry, max_mem)
    \/ elf.e_entry[1] % 4 # 0
    \/ Len(elf.segments) > 256
    \/ \E k \in 1..Len(elf.segments) :
           /\ elf.segments[k].p_type = "PT_LOAD"
           /\ \/ ~Less64(elf.segments[k].p_filesz, max_mem)
              \/ ~Less64(elf.segments[k].p_memsz, max_mem)
              \/ \E i \in Walk(elf.segments[k]) : Overflows(elf.segments[k], i)

\* C23: load_elf fails fast: with an entry >= max_mem or not a multiple of 4,
\* more than 256 program headers, a PT_LOAD segment with p_filesz or p_memsz
\* >= max_mem, or a p_vaddr + i that overflows, it returns an error and no
\* Program; the error is that of the first check that fails, the checks being
\* made in the order entry, header count, then segment by segment the file
\* size, the memory size and the walk; on success the entry returned is the
\* file's, below max_mem and word-aligned.
C23_ValidationOrder ==
    (fin.op = "load_elf" /\ fout # NoOutput /\ HeaderOk(fin.elf)) =>
        /\ ListedFailure(fin.elf, fin.max_mem) =>
               fout.kind = "err" /\ fout.image = <<>>
        /\ fout.kind = "err" =>
               fout.name = FirstFailure(fin.input, fin.elf, fin.max_mem)
        /\ fout.kind # "err" => FirstFailure(fin.input, fin.elf, fin.max_mem) = ""
        /\ fout.kind = "ok" =>
               /\ fout.val = fin.elf.e_entry
               /\ Less64(fout.val, fin.max_mem)
               /\ fout.val[1] % 4 = 0

\* a table whose first segment loads and whose second has both sizes at or
\* above max_mem: the error is the file size's
C23_Witness ==
    /\ fin.op = "load_elf"
    /\ HeaderOk(fin.elf)
    /\ Len(fin.elf.segments) = 2
    /\ SegmentFailure(fin.input, fin.elf.segments[1], fin.max_mem) = ""
    /\ fin.elf.segments[1].p_type = "PT_LOAD"
    /\ ~Less64(fin.elf.segments[2].p_filesz, fin.max_mem)
    /\ ~Less64(fin.elf.segments[2].p_memsz, fin.max_mem)
    /\ fin.elf.segments[2].p_type = "PT_LOAD"
    /\ fout.kind = "err"
    /\ fout.name = "Invalid segment file_size"

\* the word a segment defines at offset i: zero past the file size, else the
\* file bytes at p_offset + i, least significant first, the bytes not read zero
ExpectedWord(input, seg, i) ==
    LET Byte(j) == IF j < WordLen(seg, i) THEN input[seg.p_offset[1] + i + j + 1] ELSE 0
    IN  IF i >= seg.p_filesz[1] THEN Zero64
        ELSE <<Byte(0) + 256 * Byte(1), Byte(2) + 256 * Byte(3), 0, 0>>

\* the addresses of the symbols in the patch set
PatchedKeys(elf) ==
    {elf.symbols[k].st_value : k \in {n \in 1..Len(elf.symbols) :
                                          elf.symbols[n].name \in PatchSet}}

\* a later PT_LOAD segment of the table also defines the address
DefinedLater(elf, k, key) ==
    \E n \in (k + 1)..Len(elf.segments) :
        /\ elf.segments[n].p_type = "PT_LOAD"
        /\ \E i \in Walk(elf.segments[n]) : Add64(elf.segments[n].p_vaddr, U64(i)) = key

\* a file read outside the input bytes yields an error
ReadOutsideIsError ==
    (\E k \in 1..Len(fin.elf.segments) :
         /\ Walked(fin.elf.segments[k], fin.max_mem)
         /\ \E i \in Walk(fin.elf.segments[k]) :
                ReadsOutside(fin.input, fin.elf.segments[k], i))
        => fout.kind = "err"

\* C24 as stated: after load_elf succeeds the image maps, for every PT_LOAD
\* segment and every i in 0, 4, 8, ... below p_memsz, the address p_vaddr + i
\* (unless it is patched) to the word that segment defines there; a file read
\* outside the input yields an error.
C24_ProjectionEverySegment ==
    (fin.op = "load_elf" /\ fout # NoOutput) =>
        /\ ReadOutsideIsError
        /\ fout.kind = "ok" =>
               \A k \in 1..Len(fin.elf.segments) :
                   fin.elf.segments[k].p_type = "PT_LOAD" =>
                       \A i \in Walk(fin.elf.segments[k]) :
                           LET Key(key) ==
                                   key \notin PatchedKeys(fin.elf) =>
                                       /\ key \in DOMAIN fout.image
                                       /\ fout.image[key] =
                                              ExpectedWord(fin.input, fin.elf.segments[k], i)
                           IN  Key(Add64(fin.elf.segments[k].p_vaddr, U64(i)))

\* C24, amended: the same for every address p_vaddr + i that no later PT_LOAD
\* segment of the table defines as well: where segments overlap, the word of
\* the last one in table order stands.
C24_ProjectionLastSegment ==
    (fin.op = "load_elf" /\ fout # NoOutput) =>
        /\ ReadOutsideIsError
        /\ fout.kind = "ok" =>
               \A k \in 1..Len(fin.elf.segments) :
                   fin.elf.segments[k].p_type = "PT_LOAD" =>
                       \A i \in Walk(fin.elf.segments[k]) :
                           LET Key(key) ==
                                   (/\ key \notin PatchedKeys(fin.elf)
                                    /\ ~DefinedLater(fin.elf, k, key)) =>
                                       /\ key \in DOMAIN fout.image
                                       /\ fout.image[key] =
                                              ExpectedWord(fin.input, fin.elf.segments[k], i)
                           IN  Key(Add64(fin.elf.segments[k].p_vaddr, U64(i)))

\* the segment of 6 file bytes and 12 memory bytes at 0, then the segment of
\* 4 file bytes from offset 2 at address 4: a full word at 0, the later
\* segment's word at 4 (not the partial tail word 0x6655), zero at 8
C24_Witness ==
    /\ fin.op = "load_elf"
    /\ fout.kind = "ok"
    /\ fin.elf.segments = <<Segment("PT_LOAD", U64(6), U64(12), Zero64, Zero64),
                            Segment("PT_LOAD", U64(4), U64(4), U64(4), U64(2))>>
    /\ fin.elf.symbols = <<>>
    /\ fout.image[Zero64] = <<8721, 17459, 0, 0>>
    /\ fout.image[U64(4)] = <<17459, 26197, 0, 0>>
    /\ fout.image[U64(8)] = Zero64

\* C25: after load_elf succeeds, image[st_value] = 0x00008067 for every
\* symbol whose name is in the patch set, every other entry of the image
\* keeps its projected word, and the image has the keys of the projection.
C25_PatchTable ==
    (fin.op = "load_elf" /\ fout.kind = "ok") =>
        /\ \A key \in PatchedKeys(fin.elf) :
               key \in DOMAIN fout.image /\ fout.image[key] = <<32871, 0, 0, 0>>
        /\ DOMAIN fout.image = DOMAIN fout.projected
        /\ \A key \in (DOMAIN fout.image) \ PatchedKeys(fin.elf) :
               fout.image[key] = fout.projected[key]

\* runtime.doInit at 4 and main.main at 0 over the words at 0, 4 and 8: the
\* word at 4 becomes `ret`, the word at 0 stays
C25_Witness ==
    /\ fin.op = "load_elf"
    /\ fout.kind = "ok"
    /\ fin.elf.symbols = <<Symbol("runtime.doInit", U64(4)), Symbol("main.main", Zero64)>>
    /\ fout.projected[U64(4)] = <<26197, 0, 0, 0>>
    /\ fout.image[U64(4)] = <<32871, 0, 0, 0>>
    /\ fout.image[Zero64] = <<8721, 17459, 0, 0>>
    /\ DOMAIN fout.image = {Zero64, U64(4), U64(8)}

\* C26: when validation and projection pass and a symbol of the patch set has
\* an st_value that is not a key of the projected image, load_elf returns an
\* error value: it neither succeeds nor aborts.
C26_MissingTargetIsError ==
    (/\ fin.op = "load_elf"
     /\ fout # NoOutput
     /\ HeaderOk(fin.elf)
     /\ FirstFailure(fin.input, fin.elf, fin.max_mem) = ""
     /\ fin.elf.has_symtab
     /\ \A k \in 1..Len(fin.elf.symbols) : fin.elf.symbols[k].named
     /\ \E key \in PatchedKeys(fin.elf) : key \notin DOMAIN fout.projected) =>
        fout.kind = "err"


-----------------------------------------------------------------------------
(* Properties of the tags OpCode::decode assigns *)

\* the mnemonics whose rows pass a cycle weight of 2
TwoCycleOps ==
    {"XORI", "ORI", "ANDI", "SRLI", "SRAI", "XOR", "OR", "AND", "SRL", "SRA",
     "DIV", "DIVU", "REM", "REMU"}

\* C31: every decoded instruction other than ECALL and EBREAK has
\* major = idx / 8 and minor = idx mod 8, so that minor is in 0..7 and major
\* is a variant of MajorType (the conversion never fails); ECALL decodes to
\* (ECall, 0) and EBREAK to (ECall, 1); SW and SD both have idx 31; the cycle
\* weight is 2 exactly for the fourteen mnemonics of TwoCycleOps and 1
\* otherwise.
C31_TagsFromIndex ==
    (fin.op = "decode" /\ fout # NoOutput) =>
        /\ fout.name # "unwrap on None"
        /\ fout.kind = "ok" =>
               /\ fout.name \notin {"ECALL", "EBREAK"} =>
                      /\ fout.minor = fout.idx % 8
                      /\ fout.minor \in 0..7
                      /\ fout.idx \div 8 \in 0..13
                      /\ fout.major =
                             <<"Compute0", "Compute1", "Compute2", "MemIo",
                               "Multiply", "Divide", "VerifyAnd", "VerifyDivide",
                               "ECall", "ShaInit", "ShaLoad", "ShaMain",
                               "PageFault", "MuxSize">>[(fout.idx \div 8) + 1]
               /\ fout.name = "ECALL" => fout.major = "ECall" /\ fout.minor = 0
               /\ fout.name = "EBREAK" => fout.major = "ECall" /\ fout.minor = 1
               /\ fout.name \in {"SW", "SD"} => fout.idx = 31
               /\ fout.cycles = IF fout.name \in TwoCycleOps THEN 2 ELSE 1

\* SRAI has been decoded: idx 47, the largest of the table
C31_Witness ==
    /\ fin.op = "decode"
    /\ fout # NoOutput
    /\ fout.kind = "ok"
    /\ fout.name = "SRAI"
    /\ fout.idx = 47
    /\ fout.major = "Divide"
    /\ fout.minor = 7
    /\ fout.cycles = 2


\* the keys the PT_LOAD segments of the table define
SegmentKeys(elf) ==
    UNION {{Add64(elf.segments[k].p_vaddr, U64(i)) : i \in Walk(elf.segments[k])} :
               k \in {j \in 1..Len(elf.segments) :
                          elf.segments[j].p_type = "PT_LOAD"}}

\* within each loaded segment the keys are p_vaddr, p_vaddr + 4, ... up to
\* the last i < p_memsz, and the image has no other key
KeysDense ==
    (fin.op = "load_elf" /\ fout # NoOutput /\ fout.kind = "ok") =>
        DOMAIN fout.image = SegmentKeys(fin.elf)

\* C34: in every Program load_elf returns, every key of the image is a
\* multiple of 4, and within each loaded segment the keys are dense at a
\* stride of 4 bytes, with gaps only between segments.
C34_KeysAlignedDense ==
    (fin.op = "load_elf" /\ fout # NoOutput /\ fout.kind = "ok") =>
        /\ \A key \in DOMAIN fout.image : key[1] % 4 = 0
        /\ KeysDense


-----------------------------------------------------------------------------
(* Properties of MemoryImage::new *)

\* the cells of the primary region that an entry of the image covers
CoveredCells(entries) ==
    {c \in 0..(MEM_SIZE - 1) :
         \E k \in 1..Len(entries), j \in 0..3 :
             c = CellOf(Add64(entries[k][1], U64(j)))}

\* C35: after MemoryImage::new(program) the word read at addr is word for
\* every (addr, word) of program.image (no entry is dropped), every byte of
\* the primary region that no entry covers is zero, every byte of the
\* playground is zero, and the two regions are disjoint.
C35_ImageLoaded ==
    (fin.op = "new" /\ fout # NoOutput) =>
        /\ \A k \in 1..Len(fin.image) :
               SpaceRead(fout.memory_space, fin.image[k][1], "Word") =
                   [some |-> TRUE, val |-> fin.image[k][2]]
        /\ \A c \in (0..(MEM_SIZE - 1)) \ CoveredCells(fin.image) :
               fout.memory_space[c] = 0
        /\ \A c \in MEM_SIZE..(2 * MEM_SIZE - 1) : fout.memory_space[c] = 0
        /\ Less64(U64(MEM_SIZE - 1), PlaygroundBase)

\* the same for the entries whose four bytes lie in the primary region
ImageLoadedInRegion ==
    (fin.op = "new" /\ fout # NoOutput) =>
        /\ \A k \in 1..Len(fin.image) :
               (AccessInRegion(fin.image[k][1], 4)
                    /\ RegionOf(CellOf(fin.image[k][1])) = 0) =>
                   SpaceRead(fout.memory_space, fin.image[k][1], "Word") =
                       [some |-> TRUE, val |-> fin.image[k][2]]
        /\ \A c \in (0..(MEM_SIZE - 1)) \ CoveredCells(fin.image) :
               fout.memory_space[c] = 0
        /\ \A c \in MEM_SIZE..(2 * MEM_SIZE - 1) : fout.memory_space[c] = 0


-----------------------------------------------------------------------------
(* Properties of the order of the pending set *)

\* the largest of a set of bytes
MaxByte(B) == CHOOSE b \in B : \A c \in B : c <= b

\* C36: the pending set is ordered and deduplicated on (address, byte): the
\* different bytes written to one address within a step are all retained,
\* and after the commit the address holds the largest byte written to it in
\* that step, in whatever order the writes were issued.
C36_LargestByteWins ==
    /\ status = "running" =>
           \A x \in AddrsOf(calls) :
               \A b \in WrittenAt(calls, x) : MemStore(x, b) \in pending_writes
    /\ (status = "running" /\ ncommits > 0) =>
           \A x \in AddrsOf(applied) :
               CellOf(x) # NoCell =>
                   image[CellOf(x)] = MaxByte(WrittenAt(applied, x))

\* store_u8(A0, 5); store_u8(A0, 1); save_op; commit: the byte issued first
\* is the larger one and is the one the address holds
C36_Witness ==
    /\ status = "running"
    /\ ncommits = 1
    /\ applied = <<Call("int", A0, U64(5), <<>>, 1), Call("int", A0, U64(1), <<>>, 1)>>
    /\ image[CellOf(A0)] = 5

\* store_u8(A0, 5); store_u8(A0, 1): both entries are pending
C36_BothRetained ==
    /\ status = "running"
    /\ calls = <<Call("int", A0, U64(5), <<>>, 1), Call("int", A0, U64(1), <<>>, 1)>>
    /\ pending_writes = {MemStore(A0, 1), MemStore(A0, 5)}


-----------------------------------------------------------------------------
(* Properties of the stack pointer within one step *)

\* the pending stores of store_u64(get_register_addr(2), STACK_INITIAL_ADDRESS)
BootstrapStores ==
    {MemStore(Add64(get_register_addr(2), U64(k)),
              ByteOf(U64(STACK_INITIAL_ADDRESS), k)) : k \in 0..7}

\* what load_register(2) returns after the commit of the present step
X2AfterCommit ==
    LET Loaded(c) == LoadRegister(c.image, c.pending, initial, 2).val
    IN  Loaded(Commit(image, pending_writes, SaveOp([syscall |-> 0]), syscalls))

\* C37: when one step triggers the bootstrap of x2 (its first
\* load_register(2)) and then calls store_register(2, v) with v # 0, then
\* after that step's commit load_register(2) returns exactly v.
C37_StackPointerWriteKept ==
    (/\ status = "running"
     /\ ncommits = 0
     /\ before.op = "store_register"
     /\ before.idx = 2
     /\ before.data # Zero64
     /\ before.initial
     /\ BootstrapStores \subseteq before.pending) =>
        X2AfterCommit = before.data


-----------------------------------------------------------------------------
(* Properties of a commit that fails *)

\* C38: a commit that fails because no op result was saved is
\* all-or-nothing: when it panics, the memory image and the pending write
\* set are those before the call (no pending write applied or discarded).
C38_FailedCommitAtomic ==
    (before.op = "commit" /\ status = "panicked" /\ ~before.op_result.some) =>
        /\ image = before.image
        /\ pending_writes = before.pending

====
